---- MODULE Spec2Model ----
(***************************************************************************)
(* A model of ci-bridge (ci_relay): the relay between a code host          *)
(* ("Host A", GitHub) and a pipeline engine ("Host B", GitLab).            *)
(*                                                                         *)
(*   SpecSig     Signature.create / Signature.verify      (signature.py)   *)
(*   Spec        on_job_hook -> handle_pipeline_status    (callback path)  *)
(*   SpecCancel  GitLab.cancel_pipelines_if_redundant     (redundancy scan)*)
(*                                                                         *)
(* Python values are modelled as follows.  None is the string "None".      *)
(* A str or bytes value is a sequence of one-character strings; a dict is  *)
(* a function whose DOMAIN is its key set.  The calls a handler makes to   *)
(* the two hosts are appended, in order, to hostA and hostB.               *)
(***************************************************************************)
EXTENDS Integers, Sequences, FiniteSets, TLC

VARIABLES
    pc,         \* position of the running handler / function
    exc,        \* name of the exception that left the handler, or "None"
    sigArgs,    \* SpecSig: [k1, p1, k2, p2] the arguments of create and verify
    signature,  \* SpecSig: the signature string handed to verify
    ret,        \* SpecSig: what verify returned: "None" (not yet), "True", "False"
    config,     \* app.config: the fields the handlers read
    event,      \* the webhook event being handled
    variables,  \* Host B: the pipeline variables of the event's pipeline
    job,        \* Host B: the job the event is about
    locals,     \* locals of handle_pipeline_status (check_status, conclusion, title)
    hostA,      \* calls made to Host A, in order
    hostB,      \* calls made to Host B, in order
    pipelines,  \* SpecCancel: Host B's pipelines, in listing order
    scan        \* SpecCancel: the state of the running cancel scan
\* In SpecTrigger and SpecRace pc, exc, event, locals and scan are functions
\* of the task handling the webhook.

vars == <<pc, exc, sigArgs, signature, ret, config, event, variables, job,
          locals, hostA, hostB, pipelines, scan>>

None == "None"

(***************************************************************************)
(* Bounds of the model.                                                    *)
(***************************************************************************)
\* HMAC block size in bytes (128 for SHA-512), scaled down.
BlockSize == 2
\* Longest str / bytes payload given to Signature.create and verify.
MaxPayloadLen == 1

RECURSIVE SeqsUpTo(_, _)
SeqsUpTo(S, n) ==
    IF n = 0 THEN {<<>>}
    ELSE LET shorter == SeqsUpTo(S, n - 1)
         IN  shorter \cup {Append(s, x) : s \in {t \in shorter : Len(t) = n - 1}, x \in S}

(***************************************************************************)
(* signature.py                                                            *)
(***************************************************************************)
\* Characters of a str payload: one ASCII, one not.
StrChars == {"a", "\\u00e9"}
\* Bytes of a bytes payload: 0x61 ('a') and the two bytes of UTF-8 e-acute.
ByteVals == {"a", "c3", "a9"}
\* Bytes of a secret: 'k' and the zero byte.
KeyBytes == {"k", "00"}

\* str.encode(): UTF-8.  An ASCII character is one byte, U+00E9 is two.
Utf8Char(c) == IF c = "\\u00e9" THEN <<"c3", "a9">> ELSE <<c>>

RECURSIVE StrEncode(_)
StrEncode(s) == IF s = <<>> THEN <<>> ELSE Utf8Char(Head(s)) \o StrEncode(Tail(s))

\* A payload is Union[str, bytes]: [type |-> "str" | "bytes", data |-> sequence].
PyStr(s) == [type |-> "str", data |-> s]
PyBytes(b) == [type |-> "bytes", data |-> b]

\* signature.py:13-14 and 23-24: "if isinstance(payload, str): payload = payload.encode()"
PayloadBytes(payload) ==
    IF payload.type = "str" THEN StrEncode(payload.data) ELSE payload.data

\* hmac.new(key, ...): a key shorter than the block is padded with zero bytes
\* (keys of the model are never longer than the block).
PadKey(key) == key \o [i \in 1..(BlockSize - Len(key)) |-> "00"]

\* hmac.new(key, msg, "sha512").hexdigest(), as an ideal MAC: a different
\* (padded key, message) gives a different digest.  The padded key has a
\* fixed length, so the concatenation is one-to-one.
HmacHexdigest(key, msg) == PadKey(key) \o msg

\* hmac.compare_digest(a, b) on two str raises TypeError when one of them
\* holds a non-ASCII character; otherwise it is equality.
IsAscii(s) == \A i \in 1..Len(s) : s[i] # "\\u00e9"
CompareDigestRaises(a, b) == ~IsAscii(a) \/ ~IsAscii(b)

\* Signature(secret).create(payload)
SignatureCreate(secret, payload) == HmacHexdigest(secret, PayloadBytes(payload))

\* Signature(secret).verify(payload, signature): the raise and the result.
SignatureVerifyRaises(secret, payload, sig) ==
    CompareDigestRaises(HmacHexdigest(secret, PayloadBytes(payload)), sig)

\* A plausible slip: verify built on a Signature() with an empty secret.
SignatureVerifyEmptySecret(secret, payload, sig) ==
    HmacHexdigest(<<>>, PayloadBytes(payload)) = sig

\* A plausible slip: verify that only checks the signature is a digest under the key.
SignatureVerifyAnyPayload(secret, payload, sig) ==
    /\ Len(sig) >= BlockSize
    /\ SubSeq(sig, 1, BlockSize) = PadKey(secret)

SignatureVerify(secret, payload, sig) ==
    HmacHexdigest(secret, PayloadBytes(payload)) = sig

(***************************************************************************)
(* SpecSig: create and verify over bounded secrets and payloads.           *)
(***************************************************************************)
Secrets == SeqsUpTo(KeyBytes, BlockSize)
SigPayloads ==
    {PyStr(s) : s \in SeqsUpTo(StrChars, MaxPayloadLen)}
        \cup {PyBytes(b) : b \in SeqsUpTo(ByteVals, MaxPayloadLen)}
\* Signature strings that no create() call of the model returns.
ForgedSignatures == {<<"z">>, <<"\\u00e9">>}

IdleCallback ==
    /\ config = None /\ event = None /\ variables = None /\ job = None
    /\ locals = None /\ hostA = <<>> /\ hostB = <<>>
IdleCancel == pipelines = <<>> /\ scan = None
IdleSig == sigArgs = None /\ signature = None /\ ret = None

InitSig ==
    /\ pc = "sig_start" /\ exc = None
    /\ sigArgs \in [k1 : Secrets, p1 : SigPayloads, k2 : Secrets, p2 : SigPayloads]
    /\ signature = None /\ ret = None
    /\ IdleCallback /\ IdleCancel

\* sig = Signature(k1).create(p1)
SigCreate ==
    /\ pc = "sig_start"
    /\ signature' = SignatureCreate(sigArgs.k1, sigArgs.p1)
    /\ pc' = "sig_created"
    /\ UNCHANGED <<exc, sigArgs, ret, config, event, variables, job, locals,
                   hostA, hostB, pipelines, scan>>

\* The signature arrives from outside instead (a pipeline variable anyone set).
SigForge ==
    /\ pc = "sig_start"
    /\ signature' \in ForgedSignatures
    /\ pc' = "sig_forged"
    /\ UNCHANGED <<exc, sigArgs, ret, config, event, variables, job, locals,
                   hostA, hostB, pipelines, scan>>

\* ret = Signature(k2).verify(p2, sig)
SigVerify ==
    /\ pc \in {"sig_created", "sig_forged"}
    /\ IF SignatureVerifyRaises(sigArgs.k2, sigArgs.p2, signature)
       THEN exc' = "TypeError" /\ ret' = ret
       ELSE /\ ret' = IF SignatureVerify(sigArgs.k2, sigArgs.p2, signature)
                      THEN "True" ELSE "False"
            /\ exc' = exc
    /\ pc' = IF pc = "sig_created" THEN "sig_verified" ELSE "sig_rejected"
    /\ UNCHANGED <<sigArgs, signature, config, event, variables, job, locals,
                   hostA, hostB, pipelines, scan>>

NextSig == SigCreate \/ SigForge \/ SigVerify

SpecSig == InitSig /\ [][NextSig]_vars

\* C2: verify accepts what create made: for every secret k and payload p,
\* Signature(k).verify(p, Signature(k).create(p)) returns True.
C2_RoundTrip ==
    (pc = "sig_verified" /\ sigArgs.k1 = sigArgs.k2 /\ sigArgs.p1 = sigArgs.p2)
        => (ret = "True" /\ exc = None)

C2_Witness ==
    /\ pc = "sig_verified" /\ ret = "True"
    /\ sigArgs.k1 = sigArgs.k2 /\ sigArgs.p1 = sigArgs.p2
    /\ sigArgs.p1 = PyStr(<<"\\u00e9">>) /\ sigArgs.k1 = <<"k">>

\* C3 as stated: a signature made by create(k1, p1) verifies under (k2, p2)
\* only if k2 = k1 and p2 = p1 (the payloads compared as the bytes signed).
C3_ExactPair ==
    (pc = "sig_verified" /\ ret = "True")
        => (sigArgs.k1 = sigArgs.k2
            /\ PayloadBytes(sigArgs.p1) = PayloadBytes(sigArgs.p2))

\* C3 amended: a signature made by create(k1, p1) verifies under (k2, p2)
\* only if the payloads are the same bytes once encoded and the secrets are
\* the same HMAC key once zero-padded to the block size; a forged signature
\* never verifies.
C3_ExactPairUpToEncoding ==
    /\ (pc = "sig_verified" /\ ret = "True")
          => /\ PayloadBytes(sigArgs.p1) = PayloadBytes(sigArgs.p2)
             /\ PadKey(sigArgs.k1) = PadKey(sigArgs.k2)
    /\ pc = "sig_rejected" => ret # "True"

C3_Witness ==
    /\ pc = "sig_verified" /\ ret = "False" /\ exc = None
    /\ sigArgs.k1 = sigArgs.k2
    /\ PayloadBytes(sigArgs.p1) # PayloadBytes(sigArgs.p2)
    /\ sigArgs.k1 = <<"k", "k">>


(***************************************************************************)
(* utils.py: gitlab_to_github_status                                       *)
(***************************************************************************)
\* The eleven job statuses Host B documents, and one it added later.
JobStatuses ==
    {"created", "waiting_for_resource", "preparing", "pending", "running",
     "success", "failed", "canceled", "skipped", "manual", "scheduled"}
UndocumentedStatuses == {"canceling"}

\* The marker for "raise ValueError(f'Unknown status ...')".
RaiseValueError == "raise ValueError"

\* A plausible slip: "manual" left out of the first tuple.
GitlabToGithubStatusNoManual(gitlab_status) ==
    IF gitlab_status \in {"created", "waiting_for_resource", "preparing",
                          "pending", "scheduled"}
    THEN "queued"
    ELSE IF gitlab_status \in {"running"} THEN "in_progress"
    ELSE IF gitlab_status \in {"success", "failed", "canceled", "skipped"}
    THEN "completed"
    ELSE RaiseValueError

\* A plausible slip: a default instead of the raise.
GitlabToGithubStatusDefault(gitlab_status) ==
    IF gitlab_status \in {"created", "waiting_for_resource", "preparing",
                          "pending", "manual", "scheduled"}
    THEN "queued"
    ELSE IF gitlab_status \in {"running"} THEN "in_progress"
    ELSE IF gitlab_status \in {"success", "failed", "canceled", "skipped"}
    THEN "completed"
    ELSE "queued"

GitlabToGithubStatus(gitlab_status) ==
    IF gitlab_status \in {"created", "waiting_for_resource", "preparing",
                          "pending", "manual", "scheduled"}
    THEN "queued"
    ELSE IF gitlab_status \in {"running"} THEN "in_progress"
    ELSE IF gitlab_status \in {"success", "failed", "canceled", "skipped"}
    THEN "completed"
    ELSE RaiseValueError

(***************************************************************************)
(* json.dumps / json.loads of the bridge payload                           *)
(***************************************************************************)
\* PipelineTriggerData's fields, in declaration order (model_dump keeps it).
PipelineTriggerDataFields ==
    <<"installation_id", "repo_url", "repo_slug", "repo_name", "head_sha",
      "config_url", "clone_url", "clone_repo_slug", "clone_repo_name", "head_ref">>

\* json.dumps(d): the text, as the sequence of its key and value tokens in
\* the order of the dict.
RECURSIVE JsonDumpsIn(_, _)
JsonDumpsIn(d, order) ==
    IF order = <<>> THEN <<>>
    ELSE (IF Head(order) \in DOMAIN d THEN <<Head(order), d[Head(order)]>> ELSE <<>>)
             \o JsonDumpsIn(d, Tail(order))
JsonDumps(d) == JsonDumpsIn(d, PipelineTriggerDataFields)

\* json.loads(text): the dict of the key/value tokens.
JsonLoads(text) ==
    LET n == Len(text) \div 2
        keys == {text[2 * i - 1] : i \in 1..n}
    IN  [k \in keys |-> text[2 * (CHOOSE i \in 1..n : text[2 * i - 1] = k)]]

\* The dict a function d restricted to the keys in ks.
Restrict(d, ks) == [k \in (DOMAIN d) \cap ks |-> d[k]]

(***************************************************************************)
(* github/utils.py: handle_pipeline_status                                 *)
(***************************************************************************)
\* str.upper() on the job statuses.
Upper(status) ==
    CASE status = "created" -> "CREATED"
      [] status = "waiting_for_resource" -> "WAITING_FOR_RESOURCE"
      [] status = "preparing" -> "PREPARING"
      [] status = "pending" -> "PENDING"
      [] status = "running" -> "RUNNING"
      [] status = "success" -> "SUCCESS"
      [] status = "failed" -> "FAILED"
      [] status = "canceled" -> "CANCELED"
      [] status = "skipped" -> "SKIPPED"
      [] status = "manual" -> "MANUAL"
      [] status = "scheduled" -> "SCHEDULED"
      [] status = "canceling" -> "CANCELING"

\* A plausible slip: allow_failure not consulted.
ConclusionIgnoringAllowFailure(status, allow_failure) ==
    IF status = "success" THEN "success"
    ELSE IF status = "failed" THEN "failure"
    ELSE IF status = "canceled" THEN "cancelled"
    ELSE "neutral"

\* github/utils.py:437-447
Conclusion(status, allow_failure) ==
    IF status = "success" THEN "success"
    ELSE IF status = "failed"
         THEN (IF allow_failure THEN "neutral" ELSE "failure")
    ELSE IF status = "canceled" THEN "cancelled"
    ELSE "neutral"

\* A plausible slip: the annotation put on every job that may fail.
TitleOnAllowFailure(status, allow_failure) ==
    <<"GitLab CI: ", Upper(status)>>
        \o (IF allow_failure THEN <<" [allowed failure]">> ELSE <<>>)

\* github/utils.py:493-495
Title(status, allow_failure) ==
    <<"GitLab CI: ", Upper(status)>>
        \o (IF status = "failed" /\ allow_failure
            THEN <<" [allowed failure]">> ELSE <<>>)

\* A plausible slip: the completed-only fields sent as soon as finished_at is set.
WhenCompletedByTimeOnly(completed_at, check_status) == completed_at # None

\* "... if completed_at is not None and check_status == 'completed' else None"
\* (github/utils.py:516, 528, 533)
WhenCompleted(completed_at, check_status) ==
    completed_at # None /\ check_status = "completed"

\* A plausible slip: the address of the job's page in place of the API's.
GetJobUrlWeb(cfg, project_id, job_id) == <<"https://host-b", "/jobs/", job_id>>

\* GitLab.get_job_url (gitlab/__init__.py:24-25)
GetJobUrl(cfg, project_id, job_id) ==
    <<cfg.GITLAB_API_URL, "/projects/", project_id, "/jobs/", job_id>>

\* github/utils.py:497-506, without the links
Summary(status, j) ==
    <<"Status: ", Upper(status), "Created at: ", j.created_at,
      "Started at: ", j.started_at, "Finished at: ", j.finished_at>>

\* model_dump(exclude_none=True) on a dict of str-or-None values.
ExcludeNone(d) == [k \in {x \in DOMAIN d : d[x] # None} |-> d[k]]

\* The three-backquote line that opens and closes a markdown code block.
CodeFence == "<fence>"

\* CheckRunOutput(...), dumped (github/utils.py:511-519)
CheckRunOutput(status, j, check_status, log) ==
    [title |-> Title(status, j.allow_failure), summary |-> Summary(status, j)]
        @@ (IF WhenCompleted(j.finished_at, check_status)
            THEN [text |-> <<CodeFence, log, CodeFence>>]
            ELSE <<>>)

\* CheckRunPayload(...).model_dump(exclude_none=True) (github/utils.py:521-539, 549)
CheckRunPayload(cfg, status, j, project_id, head_sha, check_status, conclusion, log) ==
    ExcludeNone(
        [status |-> check_status,
         head_sha |-> head_sha,
         started_at |-> j.started_at,
         completed_at |-> IF WhenCompleted(j.finished_at, check_status)
                          THEN j.finished_at ELSE None,
         conclusion |-> IF WhenCompleted(j.finished_at, check_status)
                        THEN conclusion ELSE None,
         details_url |-> j.web_url])
      @@ [name |-> <<"CI Bridge / ", j.name>>,
          external_id |-> GetJobUrl(cfg, project_id, j.id),
          output |-> CheckRunOutput(status, j, check_status, log)]


(***************************************************************************)
(* gitlab/router.py: on_job_hook                                           *)
(***************************************************************************)
\* should_ignore_job(job_name, patterns): some pattern matches the name.
\* A pattern of the model is "^name$", written as the name it matches.
ShouldIgnoreJob(job_name, patterns) == job_name \in patterns

\* A plausible slip: the result of verify not looked at.
SignatureCheckSkipped(cfg, vs) == TRUE

\* "if not Signature(app.config.TRIGGER_SECRET).verify(bridge_payload, signature)"
\* guards the raise of SignatureMismatchError (router.py:52-54).
SignatureCheckPasses(cfg, vs) ==
    SignatureVerify(cfg.TRIGGER_SECRET, PyStr(vs["BRIDGE_PAYLOAD"]),
                    vs["TRIGGER_SIGNATURE"])

\* A plausible slip: no check of installation_id before the payload is
\* indexed with it, so that its absence surfaces as the KeyError of the lookup.
JobHookDecisionNoInstallationCheck(cfg, vs, j) ==
    IF ShouldIgnoreJob(j.name, cfg.GITLAB_IGNORED_JOB_PATTERNS) THEN "return"
    ELSE IF "BRIDGE_PAYLOAD" \notin DOMAIN vs \/ "TRIGGER_SIGNATURE" \notin DOMAIN vs
    THEN "KeyError"
    ELSE IF SignatureVerifyRaises(cfg.TRIGGER_SECRET, PyStr(vs["BRIDGE_PAYLOAD"]),
                                  vs["TRIGGER_SIGNATURE"])
    THEN "TypeError"
    ELSE IF ~SignatureCheckPasses(cfg, vs) THEN "SignatureMismatchError"
    ELSE IF "installation_id" \notin DOMAIN JsonLoads(vs["BRIDGE_PAYLOAD"])
    THEN "KeyError"
    ELSE "go"

\* What on_job_hook does between the gather and its next await
\* (router.py:45-66): "return", the name of the exception it raises, or "go".
JobHookDecision(cfg, vs, j) ==
    IF ShouldIgnoreJob(j.name, cfg.GITLAB_IGNORED_JOB_PATTERNS) THEN "return"
    ELSE IF "BRIDGE_PAYLOAD" \notin DOMAIN vs \/ "TRIGGER_SIGNATURE" \notin DOMAIN vs
    THEN "KeyError"
    ELSE IF SignatureVerifyRaises(cfg.TRIGGER_SECRET, PyStr(vs["BRIDGE_PAYLOAD"]),
                                  vs["TRIGGER_SIGNATURE"])
    THEN "TypeError"
    ELSE IF ~SignatureCheckPasses(cfg, vs) THEN "SignatureMismatchError"
    ELSE IF "installation_id" \notin DOMAIN JsonLoads(vs["BRIDGE_PAYLOAD"])
    THEN "MissingInstallationIdError"
    ELSE "go"

sigVars == <<sigArgs, signature, ret>>
cancelVars == <<pipelines, scan>>
inputVars == <<config, event, variables, job>>

\* router.py:26-37: the kind check, then the four reads of Host B, gathered.
JobHookStart ==
    /\ pc = "hook_start"
    /\ IF event.object_kind # "build"
       THEN /\ pc' = "raised" /\ exc' = "InvalidBuildError"
            /\ hostB' = hostB
       ELSE /\ pc' = "hook_gathered" /\ exc' = exc
            /\ hostB' = hostB \o
                  << [call |-> "get_pipeline", id |-> event.pipeline_id],
                     [call |-> "get_pipeline_variables", id |-> event.pipeline_id],
                     [call |-> "get_project", id |-> event.project_id],
                     [call |-> "get_job", id |-> event.build_id] >>
    /\ UNCHANGED <<sigVars, inputVars, locals, hostA, cancelVars>>

\* router.py:39-66: ignore filter, signature check, decoding, installation id,
\* then client_for_installation, which asks Host A for an access token.
JobHookVerify ==
    /\ pc = "hook_gathered"
    /\ LET d == JobHookDecision(config, variables, job)
       IN  IF d = "return"
           THEN pc' = "returned" /\ exc' = exc /\ hostA' = hostA
           ELSE IF d # "go"
           THEN pc' = "raised" /\ exc' = d /\ hostA' = hostA
           ELSE /\ pc' = "hook_client" /\ exc' = exc
                /\ hostA' = Append(hostA,
                      [call |-> "access_token",
                       installation_id |->
                           JsonLoads(variables["BRIDGE_PAYLOAD"])["installation_id"]])
    /\ UNCHANGED <<sigVars, inputVars, locals, hostB, cancelVars>>

\* router.py:68-77 and github/utils.py:429-459: the call of
\* handle_pipeline_status, up to its await of the job log.
PipelineStatusBegin ==
    /\ pc = "hook_client"
    /\ LET bridge_payload == JsonLoads(variables["BRIDGE_PAYLOAD"])
           check_status == GitlabToGithubStatus(job.status)
       IN  IF {"repo_url", "head_sha"} \subseteq DOMAIN bridge_payload
           THEN IF check_status = RaiseValueError
                THEN /\ pc' = "raised" /\ exc' = "ValueError"
                     /\ locals' = locals /\ hostB' = hostB
                ELSE /\ pc' = "status_log" /\ exc' = exc
                     /\ locals' = [locals EXCEPT
                                     !.check_status = check_status,
                                     !.conclusion = Conclusion(job.status, job.allow_failure)]
                     /\ hostB' = Append(hostB, [call |-> "get_job_log", id |-> job.id])
           ELSE /\ pc' = "raised" /\ exc' = "KeyError"
                /\ locals' = locals /\ hostB' = hostB
    /\ UNCHANGED <<sigVars, inputVars, hostA, cancelVars>>

\* github/utils.py:461-550: the report is assembled and, unless STERILE,
\* posted to {repo_url}/check-runs.
PipelineStatusPost ==
    /\ pc = "status_log"
    /\ LET bridge_payload == JsonLoads(variables["BRIDGE_PAYLOAD"])
           payload == CheckRunPayload(config, job.status, job, event.project_id,
                                      bridge_payload["head_sha"],
                                      locals.check_status, locals.conclusion, "log")
       IN  hostA' = IF ~config.STERILE
                    THEN Append(hostA,
                            [call |-> "post",
                             url |-> <<bridge_payload["repo_url"], "/check-runs">>,
                             data |-> payload])
                    ELSE hostA
    /\ pc' = "status_posted"
    /\ UNCHANGED <<exc, sigVars, inputVars, locals, hostB, cancelVars>>

\* A plausible slip: the allow-list of statuses not consulted.
ShouldNotifyAnyStatus(cfg, j) == cfg.ENABLE_GITLAB_TO_GITHUB_TRIGGERING

\* router.py:80-81: the gate of the reverse notification.
ShouldNotify(cfg, j) ==
    /\ cfg.ENABLE_GITLAB_TO_GITHUB_TRIGGERING
    /\ j.status \in cfg.GITLAB_TO_GITHUB_TRIGGER_ON_STATUS

\* The parameters of trigger_github_workflow (github/utils.py:719-726); none
\* of them has a default.
TriggerGithubWorkflowParams ==
    {"gh", "repo_name", "gitlab_job", "gitlab_project", "gitlab_pipeline", "config"}

\* The keyword arguments on_job_hook passes to it (router.py:87-94).
NotifyKeywords(bp, cfg, j) ==
    [gh |-> bp["installation_id"], repo_slug |-> bp["repo_slug"], gitlab_job |-> j,
     gitlab_project |-> "project", gitlab_pipeline |-> "pipeline", config |-> cfg]

\* Python's binding of a call by keywords to parameters without defaults:
\* TypeError for an unexpected keyword and for a missing argument.
CallRaisesTypeError(kwargs, params) == DOMAIN kwargs # params

\* A plausible slip: the call of trigger_github_workflow outside any try, so
\* that what it raises leaves on_job_hook.
JobHookNotifyUncaught ==
    /\ pc = "status_posted"
    /\ LET bp == JsonLoads(variables["BRIDGE_PAYLOAD"])
       IN  IF ~ShouldNotify(config, job)
           THEN /\ pc' = "returned" /\ exc' = exc
                /\ locals' = [locals EXCEPT !.notify = "not attempted"]
           ELSE /\ pc' = "raised"
                /\ exc' = IF "repo_slug" \notin DOMAIN bp THEN "KeyError" ELSE "TypeError"
                /\ locals' = [locals EXCEPT !.notify = "raised"]
    /\ UNCHANGED <<sigVars, inputVars, hostA, hostB, cancelVars>>

\* router.py:79-109: the reverse notification.  The keywords are bound to the
\* parameters of trigger_github_workflow; a TypeError of the binding, like
\* the KeyError of bridge_payload["repo_slug"], is raised inside the try and
\* logged by "except Exception".  When the call binds, its body
\* (github/utils.py:738-792) asks Host A for the workflows of the repository
\* and, if one listens and unless STERILE, posts the dispatch.
JobHookNotify ==
    /\ pc = "status_posted"
    /\ pc' = "returned"
    /\ LET bp == JsonLoads(variables["BRIDGE_PAYLOAD"])
       IN  IF ~ShouldNotify(config, job)
           THEN /\ locals' = [locals EXCEPT !.notify = "not attempted"]
                /\ hostA' = hostA
           ELSE IF "repo_slug" \notin DOMAIN bp
           THEN /\ locals' = [locals EXCEPT !.notify = "KeyError logged"]
                /\ hostA' = hostA
           ELSE IF CallRaisesTypeError(NotifyKeywords(bp, config, job),
                                       TriggerGithubWorkflowParams)
           THEN /\ locals' = [locals EXCEPT !.notify = "TypeError logged"]
                /\ hostA' = hostA
           ELSE \E listens \in BOOLEAN :
                  LET kw == NotifyKeywords(bp, config, job)
                  IN  /\ locals' = [locals EXCEPT !.notify = "called"]
                      /\ hostA' = hostA
                            \o <<[call |-> "get_workflows", repo |-> kw.repo_name]>>
                            \o (IF listens /\ ~config.STERILE
                                THEN <<[call |-> "dispatch", repo |-> kw.repo_name,
                                        job |-> kw.gitlab_job]>>
                                ELSE <<>>)
    /\ UNCHANGED <<exc, sigVars, inputVars, hostB, cancelVars>>

(***************************************************************************)
(* Spec: one job event handled by on_job_hook.                             *)
(***************************************************************************)
\* The secret of the bridge, and another one.
BridgeSecrets == {<<"k">>, <<"k", "k">>}

\* What trigger_pipeline puts into the payload (gitlab/__init__.py:120-132).
TriggerData(repo) ==
    [installation_id |-> "1001", repo_url |-> <<"https://host-a/repos/", repo>>,
     repo_slug |-> repo, repo_name |-> repo, head_sha |-> "abc123",
     config_url |-> "raw/.gitlab-ci.yml", clone_url |-> "clone.git",
     clone_repo_slug |-> repo, clone_repo_name |-> repo, head_ref |-> "main"]

\* The payload texts a pipeline may carry: two current ones, and one without
\* installation_id.
BridgePayloads ==
    {JsonDumps(TriggerData("org_a")), JsonDumps(TriggerData("org_b")),
     JsonDumps(Restrict(TriggerData("org_a"),
                        DOMAIN TriggerData("org_a") \ {"installation_id"}))}

\* The signatures a pipeline may carry: made by the bridge for one of the
\* payloads, made with the other secret, or made up.
PipelineSignatures ==
    {SignatureCreate(<<"k">>, PyStr(p)) : p \in BridgePayloads}
        \cup {SignatureCreate(<<"k", "k">>, PyStr(JsonDumps(TriggerData("org_a"))))}
        \cup ForgedSignatures

\* The variables of a pipeline: the bridge's, or those of a pipeline started
\* by hand in the project.
PipelineVariables ==
    {[BRIDGE_PAYLOAD |-> p, TRIGGER_SIGNATURE |-> sg] :
         p \in BridgePayloads, sg \in PipelineSignatures}
        \cup {[HEAD_SHA |-> "abc123"], [BRIDGE_PAYLOAD |-> JsonDumps(TriggerData("org_a"))]}

Configs ==
    [TRIGGER_SECRET : BridgeSecrets,
     STERILE : BOOLEAN,
     GITLAB_API_URL : {"https://host-b/api/v4"},
     GITLAB_IGNORED_JOB_PATTERNS : {{}, {"deploy"}},
     ENABLE_GITLAB_TO_GITHUB_TRIGGERING : BOOLEAN,
     GITLAB_TO_GITHUB_TRIGGER_ON_STATUS : {{"success", "failed"}}]

Jobs ==
    [id : {"7"}, name : {"build", "deploy"},
     status : JobStatuses \cup UndocumentedStatuses,
     allow_failure : BOOLEAN,
     created_at : {"T0"}, started_at : {"T1"}, finished_at : {None, "T2"},
     web_url : {"https://host-b/jobs/7"}]

Events ==
    [object_kind : {"build", "pipeline"}, project_id : {"5"},
     pipeline_id : {"6"}, build_id : {"7"}]

Init ==
    /\ pc = "hook_start" /\ exc = None
    /\ config \in Configs
    /\ event \in Events
    /\ variables \in PipelineVariables
    /\ job \in Jobs
    /\ locals = [check_status |-> None, conclusion |-> None, notify |-> None]
    /\ hostA = <<>> /\ hostB = <<>>
    /\ IdleSig /\ IdleCancel

\* A plausible slip: a dispatcher that hands an event whose handling raised
\* to on_job_hook again.
NextWithRedelivery ==
    \/ JobHookStart
    \/ JobHookVerify
    \/ PipelineStatusBegin
    \/ PipelineStatusPost
    \/ JobHookNotify
    \/ /\ pc = "raised"
       /\ pc' = "hook_start" /\ exc' = None
       /\ UNCHANGED <<sigVars, inputVars, locals, hostA, hostB, cancelVars>>

\* web.py:198 runs handle_webhook as a task of its own (app.add_task); what
\* on_job_hook raises ends that task, and nothing starts it again.
Next ==
    \/ JobHookStart
    \/ JobHookVerify
    \/ PipelineStatusBegin
    \/ PipelineStatusPost
    \/ JobHookNotify

Spec == Init /\ [][Next]_vars


\* The check-run reports posted to Host A so far.
Reports == {hostA[i].data : i \in {n \in DOMAIN hostA : hostA[n].call = "post"}}

\* The pipeline's TRIGGER_SIGNATURE verifies against its BRIDGE_PAYLOAD under
\* the bridge secret.
Verified ==
    /\ {"BRIDGE_PAYLOAD", "TRIGGER_SIGNATURE"} \subseteq DOMAIN variables
    /\ SignatureVerify(config.TRIGGER_SECRET, PyStr(variables["BRIDGE_PAYLOAD"]),
                       variables["TRIGGER_SIGNATURE"])

TerminalStatuses == {"success", "failed", "canceled", "skipped"}

\* C1: when the signature does not verify, on_job_hook makes no call to
\* Host A (no access token, no check-run), never enters
\* handle_pipeline_status, and a job that is not ignored ends in a raise.
C1_NoCallWhenUnverified ==
    ~Verified =>
        /\ hostA = <<>>
        /\ locals.check_status = None
        /\ pc \in {"hook_start", "hook_gathered", "returned", "raised"}
        /\ pc = "returned" =>
              ShouldIgnoreJob(job.name, config.GITLAB_IGNORED_JOB_PATTERNS)

C1_Witness ==
    /\ pc = "raised" /\ exc = "SignatureMismatchError" /\ hostA = <<>>
    /\ variables["BRIDGE_PAYLOAD"] = JsonDumps(TriggerData("org_b"))
    /\ variables["TRIGGER_SIGNATURE"] =
           SignatureCreate(config.TRIGGER_SECRET, PyStr(JsonDumps(TriggerData("org_a"))))

\* C4: each of the eleven documented job statuses is translated, without a
\* raise, to the one check-run status the table gives.
C4_StatusTable ==
    /\ (job.status \in JobStatuses /\ locals.check_status # None) =>
          locals.check_status =
              (IF job.status \in {"created", "waiting_for_resource", "preparing",
                                  "pending", "manual", "scheduled"} THEN "queued"
               ELSE IF job.status = "running" THEN "in_progress"
               ELSE "completed")
    /\ job.status \in JobStatuses => exc # "ValueError"
    /\ (job.status \in JobStatuses /\ pc \in {"status_log", "status_posted"}) =>
          locals.check_status \in {"queued", "in_progress", "completed"}

C4_Witness ==
    /\ pc = "status_posted" /\ job.status = "manual" /\ locals.check_status = "queued"
    /\ \E r \in Reports : r.status = "queued"

\* C5: a job status outside the documented ones raises ValueError in
\* handle_pipeline_status, and no check-run is posted for that job.
C5_UnknownStatusRaises ==
    job.status \notin JobStatuses =>
        /\ Reports = {}
        /\ locals.check_status = None
        /\ pc \notin {"status_log", "status_posted"}
        /\ (hostA # <<>> /\ pc # "hook_client") => (pc = "raised" /\ exc = "ValueError")

C5_Witness ==
    /\ job.status = "canceling" /\ pc = "raised" /\ exc = "ValueError"
    /\ hostA # <<>> /\ Reports = {} /\ ~config.STERILE

\* C6: the conclusion computed for a terminal job is success for success,
\* neutral for an allowed failure, failure for a failure, cancelled for
\* canceled, neutral for skipped; no report of an allowed failure says failure.
C6_ConclusionTable ==
    /\ (job.status \in TerminalStatuses /\ locals.conclusion # None) =>
          locals.conclusion =
              (CASE job.status = "success" -> "success"
                 [] job.status = "failed" /\ job.allow_failure -> "neutral"
                 [] job.status = "failed" /\ ~job.allow_failure -> "failure"
                 [] job.status = "canceled" -> "cancelled"
                 [] job.status = "skipped" -> "neutral")
    /\ \A r \in Reports :
          (job.status = "failed" /\ job.allow_failure /\ "conclusion" \in DOMAIN r)
              => r.conclusion # "failure"

C6_Witness ==
    /\ job.status = "failed" /\ job.allow_failure /\ locals.conclusion = "neutral"
    /\ \E r \in Reports : "conclusion" \in DOMAIN r /\ r.conclusion = "neutral"

\* C7: a report's title ends in " [allowed failure]" exactly when the job
\* failed with allow_failure set; otherwise it is "GitLab CI: <STATUS>".
C7_TitleAnnotation ==
    \A r \in Reports :
        IF job.status = "failed" /\ job.allow_failure
        THEN r.output.title = <<"GitLab CI: ", "FAILED", " [allowed failure]">>
        ELSE r.output.title = <<"GitLab CI: ", Upper(job.status)>>

C7_Witness ==
    /\ \E r \in Reports : r.output.title = <<"GitLab CI: ", "FAILED", " [allowed failure]">>
    /\ job.status = "failed" /\ job.allow_failure

\* C8: a report carries conclusion, completed_at or output.text only when
\* its status is completed.
C8_CompletedOnlyFields ==
    \A r \in Reports :
        ("conclusion" \in DOMAIN r \/ "completed_at" \in DOMAIN r
            \/ "text" \in DOMAIN r.output) => r.status = "completed"

C8_Witness ==
    /\ job.status = "running" /\ job.finished_at # None
    /\ \E r \in Reports :
          /\ r.status = "in_progress"
          /\ {"conclusion", "completed_at"} \cap DOMAIN r = {}
          /\ "text" \notin DOMAIN r.output

\* C9 as stated: every report of a terminal job has status completed and the
\* conclusion of the conclusion table, whatever finished_at is.
C9_TerminalReportHasConclusion ==
    \A r \in Reports :
        job.status \in TerminalStatuses =>
            /\ r.status = "completed"
            /\ "conclusion" \in DOMAIN r
            /\ r.conclusion = Conclusion(job.status, job.allow_failure)


(***************************************************************************)
(* gitlab/__init__.py: GitLab.cancel_pipelines_if_redundant                *)
(***************************************************************************)
\* Most pipelines Host B holds in the model.
MaxPipelines == 3

\* The scopes the scan queries, in the order of the for loop.
ScanScopes == <<"running", "pending">>

\* gl.getiter(".../pipelines", {"scope": scope}): the pipelines of that
\* status, in listing order.  A pipeline is named by its place in pipelines.
InScope(ps, scope) == SelectSeq([i \in DOMAIN ps |-> i], LAMBDA i : ps[i].status = scope)

\* The candidates the two loops visit, in order.
ScanOrder(ps) == InScope(ps, ScanScopes[1]) \o InScope(ps, ScanScopes[2])

\* "variables['HEAD_REF'] == head_ref and variables['CLONE_URL'] == clone_url"
\* (gitlab/__init__.py:77-80); the second lookup happens only if the first
\* comparison is true.
IsRedundantRaises(vs, head_ref, clone_url) ==
    \/ "HEAD_REF" \notin DOMAIN vs
    \/ (vs["HEAD_REF"] = head_ref /\ "CLONE_URL" \notin DOMAIN vs)

IsRedundant(vs, head_ref, clone_url) ==
    vs["HEAD_REF"] = head_ref /\ vs["CLONE_URL"] = clone_url

\* The cancel calls sent so far, as the set of pipelines they name.
CancelCallsSent == {hostB[i].id : i \in {n \in DOMAIN hostB : hostB[n].call = "cancel"}}

\* One turn of the inner loop (gitlab/__init__.py:68-91): the next candidate
\* of the listing, its variables, the comparison, and the cancel call, which
\* Host B may refuse.  The loops end when the listings are exhausted.
CancelScanStep ==
    /\ pc = "scan"
    /\ LET order == ScanOrder(pipelines)
       IN  IF scan.visited = Len(order)
           THEN pc' = "scan_done" /\ UNCHANGED <<exc, scan, hostB>>
           ELSE LET id == order[scan.visited + 1]
                    vs == pipelines[id].variables
                IN  /\ scan' = [scan EXCEPT !.visited = @ + 1]
                    /\ IF IsRedundantRaises(vs, scan.head_ref, scan.clone_url)
                       THEN pc' = "raised" /\ exc' = "KeyError" /\ hostB' = hostB
                       ELSE IF IsRedundant(vs, scan.head_ref, scan.clone_url)
                                 /\ ~config.STERILE
                       THEN \E ok \in BOOLEAN :
                              /\ hostB' = Append(hostB,
                                    [call |-> "cancel", id |-> id, ok |-> ok])
                              /\ pc' = IF ok THEN "scan" ELSE "raised"
                              /\ exc' = IF ok THEN exc ELSE "GitLabException"
                       ELSE pc' = "scan" /\ exc' = exc /\ hostB' = hostB
    /\ UNCHANGED <<sigVars, inputVars, locals, hostA, pipelines>>

(***************************************************************************)
(* SpecCancel: one scan over a fixed set of pipelines.                     *)
(***************************************************************************)
\* The variables of a pipeline of the project: the bridge's (HEAD_REF and
\* CLONE_URL), or those of a pipeline that was not started by the bridge.
ScanVariables ==
    {[HEAD_REF |-> "feature", CLONE_URL |-> "https://host-a/org/repo.git"],
     [HEAD_REF |-> "feature", CLONE_URL |-> "https://host-a/fork/repo.git"],
     [HEAD_REF |-> "main", CLONE_URL |-> "https://host-a/org/repo.git"],
     [HEAD_REF |-> "main"],
     [CLONE_URL |-> "https://host-a/org/repo.git"]}

ScanPipelines ==
    [status : {"running", "pending", "success"}, variables : ScanVariables]

ScanConfigs ==
    [STERILE : BOOLEAN]

InitCancel ==
    /\ pc = "scan" /\ exc = None
    /\ config \in ScanConfigs
    /\ pipelines \in SeqsUpTo(ScanPipelines, MaxPipelines)
    /\ scan = [head_ref |-> "feature", clone_url |-> "https://host-a/org/repo.git",
               visited |-> 0]
    /\ event = None /\ variables = None /\ job = None /\ locals = None
    /\ hostA = <<>> /\ hostB = <<>>
    /\ IdleSig

NextCancel == CancelScanStep

SpecCancel == InitCancel /\ [][NextCancel]_vars

\* The in-flight pipelines whose HEAD_REF and CLONE_URL variables equal the
\* scan's head_ref and clone_url.
RedundantPipelines ==
    {i \in DOMAIN pipelines :
        /\ pipelines[i].status \in {"running", "pending"}
        /\ {"HEAD_REF", "CLONE_URL"} \subseteq DOMAIN pipelines[i].variables
        /\ pipelines[i].variables["HEAD_REF"] = scan.head_ref
        /\ pipelines[i].variables["CLONE_URL"] = scan.clone_url}

\* C10 as stated: once the scan has ended, the cancel calls sent are exactly
\* those to the in-flight pipelines with matching HEAD_REF and CLONE_URL.
C10_CancelsExactlyRedundant ==
    pc \in {"scan_done", "raised"} => CancelCallsSent = RedundantPipelines

\* The cancel calls that Host B refused.
CancelCallsFailed == {hostB[i].id : i \in {n \in DOMAIN hostB :
                                       hostB[n].call = "cancel" /\ ~hostB[n].ok}}

\* C11 as stated: a failed cancel call does not end the scan; when every
\* candidate carries both variables and the scan has ended after some cancel
\* call failed, every matching in-flight pipeline has been sent its cancel
\* call.
C11_FailedCancelKeepsScanning ==
    (/\ pc \in {"scan_done", "raised"}
     /\ ~config.STERILE
     /\ CancelCallsFailed # {}
     /\ \A i \in DOMAIN pipelines :
            {"HEAD_REF", "CLONE_URL"} \subseteq DOMAIN pipelines[i].variables)
        => RedundantPipelines \subseteq CancelCallsSent

(***************************************************************************)
(* The trigger path: github/utils.py handlers and GitLab.trigger_pipeline. *)
(* A repository name, a slug and a URL are sequences of text segments,     *)
(* "/" being a segment of its own; logins, refs and shas are strings.      *)
(***************************************************************************)
\* make_repo_slug(full_name): full_name.replace("/", "_")
RECURSIVE MakeRepoSlug(_)
MakeRepoSlug(full_name) ==
    IF full_name = <<>> THEN <<>>
    ELSE <<IF Head(full_name) = "/" THEN "_" ELSE Head(full_name)>>
             \o MakeRepoSlug(Tail(full_name))

\* event.ref.split("/")[-1] in handle_push.
LastRefSegment(ref) == IF ref[Len(ref)] = "/" THEN "" ELSE ref[Len(ref)]

\* handle_push: a repository URL of the web site is replaced by the API's.
PushRepoUrl(url, full_name) ==
    IF Len(url) > 0 /\ url[1] = "https://github.com/"
    THEN <<"https://api.github.com/repos/">> \o full_name
    ELSE url

\* A plausible slip: a login Host A does not know in the team let through.
GetAuthorInTeamLenient(author, org, cfg, membership_status) ==
    IF cfg.ALLOW_ORG # org
    THEN [raises |-> "TeamOrgMismatchError", result |-> FALSE, asked |-> FALSE]
    ELSE IF author = org
    THEN [raises |-> None, result |-> TRUE, asked |-> FALSE]
    ELSE IF membership_status \in {200, 404}
    THEN [raises |-> None, result |-> TRUE, asked |-> TRUE]
    ELSE [raises |-> "BadRequest", result |-> FALSE, asked |-> TRUE]

\* get_author_in_team(gh, author, org, config), given the status Host A
\* answers the membership query with: the exception raised, or True / False;
\* "asked" tells whether the query was made.
GetAuthorInTeam(author, org, cfg, membership_status) ==
    IF cfg.ALLOW_ORG # org
    THEN [raises |-> "TeamOrgMismatchError", result |-> FALSE, asked |-> FALSE]
    ELSE IF author = org
    THEN [raises |-> None, result |-> TRUE, asked |-> FALSE]
    ELSE IF membership_status = 200
    THEN [raises |-> None, result |-> TRUE, asked |-> TRUE]
    ELSE IF membership_status # 404
    THEN [raises |-> "BadRequest", result |-> FALSE, asked |-> TRUE]
    ELSE [raises |-> None, result |-> author \in cfg.EXTRA_USERS, asked |-> TRUE]

\* The check-run add_rejection_status posts.
RejectionPayload(head_sha) ==
    [name |-> "CI Bridge", status |-> "completed", conclusion |-> "neutral",
     head_branch |-> "", head_sha |-> head_sha,
     output |-> [title |-> "Pipeline refused",
                 summary |-> "No pipeline was triggered for this user"]]

\* The check-run add_failure_status posts.
FailurePayload(head_sha, message) ==
    [name |-> "CI Bridge", status |-> "completed", conclusion |-> "failure",
     head_branch |-> "", head_sha |-> head_sha,
     output |-> [title |-> "Pipeline could not be created", summary |-> message]]

\* The call both helpers make unless STERILE: gh.post(f"{repo_url}/check-runs").
CheckRunPost(h, repo_url, payload) ==
    [call |-> "post", by |-> h, url |-> repo_url \o <<"/check-runs">>, data |-> payload]

\* PipelineTriggerData(...) of trigger_pipeline, from its arguments and the
\* download_url of the fetched .gitlab-ci.yml.
PipelineTriggerData(a, config_url) ==
    [installation_id |-> a.installation_id, repo_url |-> a.repo_url,
     repo_slug |-> a.repo_slug, repo_name |-> a.repo_name, head_sha |-> a.head_sha,
     config_url |-> config_url, clone_url |-> a.clone_url,
     clone_repo_slug |-> a.clone_repo_slug, clone_repo_name |-> a.clone_repo_name,
     head_ref |-> a.head_ref]

\* A plausible slip: REPO_SLUG filled from the clone's slug.
TriggerPostDataCloneSlug(cfg, a, config_url) ==
    LET payload == JsonDumps(PipelineTriggerData(a, config_url))
    IN  [token |-> "trigger-token", ref |-> "main",
         variables |->
           [BRIDGE_PAYLOAD |-> payload,
            TRIGGER_SIGNATURE |-> SignatureCreate(cfg.TRIGGER_SECRET, PyStr(payload)),
            CONFIG_URL |-> config_url, CLONE_URL |-> a.clone_url,
            REPO_SLUG |-> a.clone_repo_slug, CLONE_REPO_SLUG |-> a.clone_repo_slug,
            REPO_NAME |-> a.repo_name, CLONE_REPO_NAME |-> a.clone_repo_name,
            HEAD_SHA |-> a.head_sha, HEAD_REF |-> a.head_ref]]

\* The form trigger_pipeline posts to the trigger URL (gitlab/__init__.py:120-153).
TriggerPostData(cfg, a, config_url) ==
    LET data == PipelineTriggerData(a, config_url)
        payload == JsonDumps(data)
        sig == SignatureCreate(cfg.TRIGGER_SECRET, PyStr(payload))
    IN  [token |-> "trigger-token", ref |-> "main",
         variables |->
           [BRIDGE_PAYLOAD |-> payload, TRIGGER_SIGNATURE |-> sig,
            CONFIG_URL |-> data.config_url, CLONE_URL |-> a.clone_url,
            REPO_SLUG |-> a.repo_slug, CLONE_REPO_SLUG |-> a.clone_repo_slug,
            REPO_NAME |-> a.repo_name, CLONE_REPO_NAME |-> a.clone_repo_name,
            HEAD_SHA |-> a.head_sha, HEAD_REF |-> a.head_ref]]

\* The bodies Host B sends with a 422: info, a JSON object.
UnprocessableBodies ==
    {[message |-> [base |-> "Invalid configuration"]],
     [message |-> [other |-> "x"]],
     [error |-> "x"]}

\* The statuses Host B answers the submission with, and the body of each.
SubmitStatuses == {201, 400, 422, 500}
BodiesFor(status) ==
    IF status = 422 THEN UnprocessableBodies
    ELSE IF status = 201 THEN {[status |-> "pending"]}
    ELSE {[error |-> "x"]}

\* A plausible slip: no default when the key is absent.
FailureMessageNoDefault(info) ==
    IF "message" \in DOMAIN info /\ "base" \in DOMAIN info.message
    THEN info.message.base
    ELSE None

\* message = "Unknown error"; try: message = info["message"]["base"]
\* except KeyError: pass
FailureMessage(info) ==
    IF "message" \in DOMAIN info /\ "base" \in DOMAIN info.message
    THEN info.message.base
    ELSE "Unknown error"

\* A plausible slip: every refusal of Host B handled like a 422.
SubmitOutcomeAnyRefusal(status) ==
    IF status >= 400 THEN "failure_status" ELSE "triggered"

\* What trigger_pipeline does with the response (gitlab/__init__.py:155-174):
\* 422 is reported, raise_for_status() raises on any other status >= 400.
SubmitOutcome(status) ==
    IF status = 422 THEN "failure_status"
    ELSE IF status >= 400 THEN "ClientResponseError"
    ELSE "triggered"

(***************************************************************************)
(* State of the trigger path.  Several webhook tasks may be running on the *)
(* event loop (web.py:198 add_task), so pc, exc, event, locals and scan    *)
(* are functions of the task; Host A, Host B and the config are shared.    *)
(***************************************************************************)
Tasks == DOMAIN pc

OrgRepo == <<"org", "/", "repo">>
ForkRepo == <<"eve", "/", "repo">>
OrgCloneUrl == "https://host-a/org/repo.git"
ForkCloneUrl == "https://host-a/eve/repo.git"
ApiRepoUrl == <<"https://api.github.com/repos/">> \o OrgRepo
WebRepoUrl == <<"https://github.com/">> \o OrgRepo
\* Logins: the organisation itself, and a user who may be a team member.
Logins == {"org", "eve"}

\* The fields every event carries.
EventBase(kind) ==
    [kind |-> kind, org |-> "org", full_name |-> OrgRepo, repo_url |-> ApiRepoUrl,
     installation_id |-> "1001", head_sha |-> "abc123"]

\* f @@ g without the TLC module's operator: the fields of both records.
Merge(f, g) ==
    [k \in DOMAIN f \cup DOMAIN g |-> IF k \in DOMAIN f THEN f[k] ELSE g[k]]

\* pull_request events (opened, synchronize, ...), from the organisation's
\* repository or from a fork.
SynchronizeEvents ==
    {Merge(EventBase("synchronize"),
           [draft |-> d, author |-> a, source_login |-> sl, head_ref |-> "feature",
            clone_url |-> IF sl = "org" THEN OrgCloneUrl ELSE ForkCloneUrl,
            clone_full_name |-> IF sl = "org" THEN OrgRepo ELSE ForkRepo]) :
        d \in BOOLEAN, a \in Logins, sl \in Logins}

PushEvents ==
    {Merge([EventBase("push") EXCEPT !.repo_url = u],
           [sender |-> s, pusher |-> pu, ref |-> <<"refs", "/", "heads", "/", "feature">>,
            clone_url |-> OrgCloneUrl]) :
        s \in Logins, pu \in Logins, u \in {ApiRepoUrl, WebRepoUrl}}

CheckSuiteEvents ==
    {Merge(EventBase("check_suite"), [sender |-> s, app_id |-> app]) :
        s \in Logins, app \in {"bridge", "other-app"}}

\* The external_id of the check runs handle_pipeline_status posted for job 7
\* of project 5 (github/utils.py:537).
ReportedExternalIds ==
    {GetJobUrl([GITLAB_API_URL |-> "https://host-b/api/v4"], "5", "7")}

\* check_run rerequested events: for a check run of the bridge, for one whose
\* external_id goes on after the API URL with another host's name, and for
\* one of another service.
RerequestEvents ==
    {Merge(EventBase("rerequest"), [sender |-> s, external_id |-> x]) :
        s \in Logins,
        x \in ReportedExternalIds
                 \cup {<<"https://host-b/api/v4", ".elsewhere.example/jobs/7">>,
                       <<"https://elsewhere", "/jobs/7">>}}

\* The text of a comment is the sequence of its words and of the white
\* space between them.
CommentBodies ==
    {<<"/rerun">>, <<"/retry">>, <<" ", "/ReRun", "\n">>, <<"thanks">>,
     <<"/rerun", " ", "please">>}

CommentEvents ==
    {Merge(EventBase("comment"),
           [action |-> act, is_pr |-> pr, sender |-> s, body |-> b,
            head_ref |-> "feature", clone_url |-> OrgCloneUrl,
            clone_full_name |-> OrgRepo]) :
        act \in {"created", "edited"}, pr \in BOOLEAN, s \in Logins,
        b \in CommentBodies}

TriggerEvents ==
    SynchronizeEvents \cup PushEvents \cup CheckSuiteEvents
        \cup RerequestEvents \cup CommentEvents

TriggerConfigs ==
    [STERILE : BOOLEAN, ALLOW_ORG : {"org", "elsewhere"},
     EXTRA_USERS : {{}, {"eve"}}, TRIGGER_SECRET : {<<"k">>},
     APP_ID : {"bridge"}, GITLAB_API_URL : {"https://host-b/api/v4"}]

\* The locals of a task at its start.
StartLocals ==
    [logins |-> <<>>, tail |-> 1, config_url |-> "", submitted |-> 0,
     args |-> [installation_id |-> "", repo_url |-> <<>>, repo_slug |-> <<>>,
               repo_name |-> <<>>, head_sha |-> "", clone_url |-> "",
               clone_repo_slug |-> <<>>, clone_repo_name |-> <<>>, head_ref |-> ""]]

StartScan == [visited |-> 0]

\* The arguments the handler will give trigger_pipeline, as far as the event
\* tells them (handle_check_suite takes the rest from the earlier pipeline).
EventArgs(ev) ==
    LET name == ev.full_name
        clone_name == IF "clone_full_name" \in DOMAIN ev THEN ev.clone_full_name
                      ELSE name
    IN  [installation_id |-> ev.installation_id,
         repo_url |-> IF ev.kind = "push" THEN PushRepoUrl(ev.repo_url, name)
                      ELSE ev.repo_url,
         repo_slug |-> MakeRepoSlug(name), repo_name |-> name,
         head_sha |-> ev.head_sha,
         clone_url |-> IF "clone_url" \in DOMAIN ev THEN ev.clone_url ELSE "",
         clone_repo_slug |-> MakeRepoSlug(clone_name), clone_repo_name |-> clone_name,
         head_ref |-> IF ev.kind = "push" THEN LastRefSegment(ev.ref)
                      ELSE IF "head_ref" \in DOMAIN ev THEN ev.head_ref ELSE ""]

\* The task goes on to the step p / ends by raising e.
Goto(h, p) == pc' = [pc EXCEPT ![h] = p] /\ exc' = exc
Raise(h, e) == pc' = [pc EXCEPT ![h] = "raised"] /\ exc' = [exc EXCEPT ![h] = e]

\* A plausible slip: only the first identity is checked.
LoginsToCheckFirstOnly(ev) ==
    IF ev.kind = "synchronize" THEN <<ev.author>> ELSE <<ev.sender>>

\* The logins a handler checks against the team, in order.
LoginsToCheck(ev) ==
    IF ev.kind = "synchronize" THEN <<ev.author, ev.source_login>>
    ELSE IF ev.kind = "push" THEN <<ev.sender, ev.pusher>>
    ELSE <<ev.sender>>

\* A plausible slip: the job url not compared with the API URL.
JobUrlAlwaysCompatible(job_url, cfg) == TRUE

\* job_url.startswith(config.GITLAB_API_URL) (github/utils.py:264); a url is
\* the sequence of its parts, the API URL one part.
JobUrlIsCompatible(job_url, cfg) ==
    Len(job_url) >= 1 /\ job_url[1] = cfg.GITLAB_API_URL

\* The handler up to its first await: the filters that end it silently and,
\* in handle_rerequest, get_gitlab_job.
HandlerStart(h) ==
    /\ pc[h] = "start"
    /\ LET ev == event[h]
           ready == [locals EXCEPT ![h].logins = LoginsToCheck(ev),
                                   ![h].args = EventArgs(ev)]
       IN  CASE ev.kind = "synchronize" ->
                  /\ IF ev.draft THEN Goto(h, "returned") /\ locals' = locals
                     ELSE Goto(h, "team") /\ locals' = ready
                  /\ hostB' = hostB
             [] ev.kind = "push" ->
                  Goto(h, "team") /\ locals' = ready /\ hostB' = hostB
             [] ev.kind = "check_suite" ->
                  /\ IF ev.app_id # config.APP_ID
                     THEN Goto(h, "returned") /\ locals' = locals
                     ELSE Goto(h, "team") /\ locals' = ready
                  /\ hostB' = hostB
             [] ev.kind = "rerequest" ->
                  IF ~JobUrlIsCompatible(ev.external_id, config)
                  THEN Raise(h, "IncompatibleJobUrlError")
                       /\ locals' = locals /\ hostB' = hostB
                  ELSE \E status \in {200, 404} :
                         /\ hostB' = Append(hostB, [call |-> "get_job", by |-> h])
                         /\ IF status = 200
                            THEN Goto(h, "team") /\ locals' = ready
                            ELSE Raise(h, "ClientResponseError") /\ locals' = locals
             [] ev.kind = "comment" ->
                  /\ IF ev.action # "created" \/ ~ev.is_pr
                     THEN Goto(h, "returned") /\ locals' = locals
                     ELSE Goto(h, "team") /\ locals' = ready
                  /\ hostB' = hostB
    /\ UNCHANGED <<sigVars, config, event, variables, job, hostA, pipelines, scan>>

\* A plausible slip: the pipeline is submitted before the scan.
HandlerTailTriggerFirst(kind) ==
    IF kind = "comment" THEN <<"trigger", "scan", "react">> ELSE <<"trigger", "scan">>

\* The awaits that end a trigger handler, in order: the cancel scan, then
\* trigger_pipeline, then (handle_rerun_comment) the reaction to the comment.
HandlerTail(kind) ==
    IF kind = "comment" THEN <<"scan", "trigger", "react">> ELSE <<"scan", "trigger">>

\* The i-th of these steps, or the return of the handler after the last one.
TailStep(kind, i) ==
    IF i > Len(HandlerTail(kind)) THEN "returned" ELSE HandlerTail(kind)[i]

\* Whether the handler calls add_rejection_status for a user outside the
\* team: handle_rerequest and handle_comment just return.
RejectionIsReported(kind) == kind \in {"synchronize", "push", "check_suite"}

\* Where the handler goes once every login is in the team.
AfterTeam(kind) == IF kind = "synchronize" THEN TailStep(kind, 1) ELSE "installed"

\* One get_author_in_team call of the handler and what follows from it.
TeamCheck(h) ==
    /\ pc[h] = "team"
    /\ \E status \in {200, 404, 500} :
         LET ev == event[h]
             l == locals[h]
             login == Head(l.logins)
             r == GetAuthorInTeam(login, ev.org, config, status)
             asked == IF r.asked
                      THEN <<[call |-> "membership", by |-> h, login |-> login,
                              status |-> status]>>
                      ELSE <<>>
         IN  IF r.raises # None
             THEN /\ Raise(h, r.raises)
                  /\ hostA' = hostA \o asked /\ locals' = locals
             ELSE IF ~r.result
             THEN /\ Goto(h, "returned")
                  /\ locals' = locals
                  /\ hostA' = hostA \o asked \o
                        (IF RejectionIsReported(ev.kind) /\ ~config.STERILE
                         THEN <<CheckRunPost(h, l.args.repo_url,
                                             RejectionPayload(l.args.head_sha))>>
                         ELSE <<>>)
             ELSE /\ hostA' = hostA \o asked
                  /\ locals' = [locals EXCEPT ![h].logins = Tail(l.logins)]
                  /\ Goto(h, IF Len(l.logins) = 1 THEN AfterTeam(ev.kind) ELSE "team")
    /\ UNCHANGED <<sigVars, config, event, variables, job, hostB, pipelines, scan>>

\* A part of a text that str.strip() removes at its ends.
IsWhitespace(part) == part \in {" ", "\n", "\t"}

\* str.strip()
RECURSIVE Strip(_)
Strip(text) ==
    IF text = <<>> THEN text
    ELSE IF IsWhitespace(Head(text)) THEN Strip(Tail(text))
    ELSE IF IsWhitespace(text[Len(text)]) THEN Strip(SubSeq(text, 1, Len(text) - 1))
    ELSE text

\* str.lower() on the words of the comments.
LowerWord(word) ==
    CASE word = "/ReRun" -> "/rerun"
      [] OTHER -> word

Lower(text) == [i \in DOMAIN text |-> LowerWord(text[i])]

\* A plausible slip: a comment that only begins with the command accepted.
IsRerunCommandPrefix(body) ==
    LET comment_body == Lower(Strip(body))
    IN  comment_body # <<>> /\ comment_body[1] \in {"/rerun", "/retry"}

\* github/utils.py:596-597: comment_body in ("/rerun", "/retry")
IsRerunCommand(body) ==
    LET comment_body == Lower(Strip(body))
    IN  Len(comment_body) = 1 /\ comment_body[1] \in {"/rerun", "/retry"}

\* is_in_installed_repos: only handle_comment acts on the answer; it then
\* looks for a command in the comment.
InstalledCheck(h) ==
    /\ pc[h] = "installed"
    /\ \E installed \in BOOLEAN :
         /\ hostA' = Append(hostA, [call |-> "installed_repos", by |-> h,
                                    installed |-> installed])
         /\ LET ev == event[h]
            IN  CASE ev.kind = "push" -> Goto(h, TailStep(ev.kind, 1))
                  [] ev.kind = "check_suite" -> Goto(h, "resolve")
                  [] ev.kind = "rerequest" -> Goto(h, "retry")
                  [] ev.kind = "comment" ->
                       IF installed /\ IsRerunCommand(ev.body)
                       THEN Goto(h, "resolve")
                       ELSE Goto(h, "returned")
    /\ UNCHANGED <<sigVars, config, event, variables, job, locals, hostB,
                   pipelines, scan>>

\* The variables Host B may hold for the pipeline behind a check suite: the
\* bridge's own, the same under a made-up signature, the bridge's own for an
\* earlier commit of a fork, a signed payload from before head_ref and the
\* clone names were added, and a pipeline that was not started by the bridge.
EarlierVariables ==
    LET a == [installation_id |-> "1001", repo_url |-> ApiRepoUrl,
              repo_slug |-> MakeRepoSlug(OrgRepo), repo_name |-> OrgRepo,
              head_sha |-> "abc123", clone_url |-> OrgCloneUrl,
              clone_repo_slug |-> MakeRepoSlug(OrgRepo), clone_repo_name |-> OrgRepo,
              head_ref |-> "feature"]
        b == [a EXCEPT !.head_sha = "def456", !.clone_url = ForkCloneUrl,
                       !.clone_repo_slug = MakeRepoSlug(ForkRepo),
                       !.clone_repo_name = ForkRepo, !.head_ref = "fix"]
        sent == TriggerPostData([TRIGGER_SECRET |-> <<"k">>], a, "raw/.gitlab-ci.yml").variables
        data == PipelineTriggerData(a, "raw/.gitlab-ci.yml")
        old == JsonDumps(Restrict(data, DOMAIN data \ {"head_ref", "clone_repo_slug",
                                                        "clone_repo_name"}))
    IN  {sent,
         [sent EXCEPT !.TRIGGER_SIGNATURE = <<"z">>],
         TriggerPostData([TRIGGER_SECRET |-> <<"k">>], b, "raw/.gitlab-ci.yml").variables,
         [BRIDGE_PAYLOAD |-> old,
          TRIGGER_SIGNATURE |-> SignatureCreate(<<"k">>, PyStr(old))],
         [HEAD_SHA |-> "abc123"]}

\* dict.get(key, default)
DictGet(d, key, default) == IF key \in DOMAIN d THEN d[key] ELSE default

\* A plausible slip: the three later fields indexed like the first two.
RerequestDecodeStrict(bp) ==
    IF ~({"clone_url", "head_sha", "head_ref", "clone_repo_slug", "clone_repo_name"}
              \subseteq DOMAIN bp)
    THEN [raises |-> "KeyError"]
    ELSE [raises |-> None, clone_url |-> bp["clone_url"], head_sha |-> bp["head_sha"],
          head_ref |-> bp["head_ref"], clone_repo_slug |-> bp["clone_repo_slug"],
          clone_repo_name |-> bp["clone_repo_name"]]

\* github/utils.py:172-182: what handle_check_suite takes from the decoded
\* payload.  clone_url and head_sha are indexed, the three later fields are
\* read with .get(key, ""); the empty text of a slug or a name is <<>>.
RerequestDecode(bp) ==
    IF ~({"clone_url", "head_sha"} \subseteq DOMAIN bp)
    THEN [raises |-> "KeyError"]
    ELSE [raises |-> None, clone_url |-> bp["clone_url"], head_sha |-> bp["head_sha"],
          head_ref |-> DictGet(bp, "head_ref", ""),
          clone_repo_slug |-> DictGet(bp, "clone_repo_slug", <<>>),
          clone_repo_name |-> DictGet(bp, "clone_repo_name", <<>>)]

\* A plausible slip: the earlier pipeline's payload taken on trust.
PayloadVerifiesAlways(cfg, vs) == TRUE

\* github/utils.py:166: Signature(config.TRIGGER_SECRET).verify(bridge_payload,
\* signature) on the variables of the earlier pipeline.
PayloadVerifies(cfg, vs) ==
    SignatureVerify(cfg.TRIGGER_SECRET, PyStr(vs["BRIDGE_PAYLOAD"]), vs["TRIGGER_SIGNATURE"])

\* handle_check_suite from the check runs to the arguments of the new
\* pipeline (github/utils.py:139-184); handle_rerun_comment's read of the
\* pull request (610-612).
Resolve(h) ==
    /\ pc[h] = "resolve"
    /\ LET ev == event[h]
           a == locals[h].args
       IN  IF ev.kind = "comment"
           THEN /\ hostA' = Append(hostA, [call |-> "get_pr", by |-> h])
                /\ Goto(h, TailStep(ev.kind, 1))
                /\ UNCHANGED <<locals, hostB>>
           ELSE \E runs \in {"none", "no_external_id", "incompatible", "job"} :
                  /\ hostA' = Append(hostA, [call |-> "check_runs", by |-> h])
                  /\ IF runs \in {"none", "no_external_id"}
                     THEN Goto(h, "returned") /\ UNCHANGED <<locals, hostB>>
                     ELSE IF runs = "incompatible"
                     THEN Raise(h, "IncompatibleJobUrlError") /\ UNCHANGED <<locals, hostB>>
                     ELSE \E vs \in EarlierVariables :
                       /\ hostB' = hostB \o <<[call |-> "get_job", by |-> h],
                                              [call |-> "get_pipeline_variables", by |-> h,
                                               answer |-> vs]>>
                       /\ IF ~({"BRIDGE_PAYLOAD", "TRIGGER_SIGNATURE"} \subseteq DOMAIN vs)
                          THEN Raise(h, "KeyError") /\ locals' = locals
                          ELSE IF ~PayloadVerifies(config, vs)
                          THEN Raise(h, "SignatureMismatchError") /\ locals' = locals
                          ELSE LET d == RerequestDecode(JsonLoads(vs["BRIDGE_PAYLOAD"]))
                               IN  IF d.raises # None
                                   THEN Raise(h, d.raises) /\ locals' = locals
                                   ELSE /\ Goto(h, TailStep(ev.kind, 1))
                                        /\ locals' = [locals EXCEPT ![h].args =
                                             [a EXCEPT !.clone_url = d.clone_url,
                                                       !.head_sha = d.head_sha,
                                                       !.head_ref = d.head_ref,
                                                       !.clone_repo_slug = d.clone_repo_slug,
                                                       !.clone_repo_name = d.clone_repo_name]]
    /\ UNCHANGED <<sigVars, config, event, variables, job, pipelines, scan>>

\* A plausible slip: the cancel call sent in dry-run mode too.
SendsCancelWhenSterile(cfg, vs, head_ref, clone_url) ==
    IsRedundant(vs, head_ref, clone_url)

\* gitlab/__init__.py:77-91: the cancel call goes to a match unless STERILE.
SendsCancel(cfg, vs, head_ref, clone_url) ==
    IsRedundant(vs, head_ref, clone_url) /\ ~cfg.STERILE

\* The step after the current one of the handler's tail.
NextTail(h) == TailStep(event[h].kind, locals[h].tail + 1)

\* One turn of the scan's inner loop within a handler (as CancelScanStep),
\* for the head_ref and clone_url the handler passes.
TriggerScanStep(h) ==
    /\ pc[h] = "scan"
    /\ LET order == ScanOrder(pipelines)
           a == locals[h].args
       IN  IF scan[h].visited >= Len(order)
           THEN /\ Goto(h, NextTail(h))
                /\ locals' = [locals EXCEPT ![h].tail = @ + 1]
                /\ UNCHANGED <<scan, hostB>>
           ELSE LET id == order[scan[h].visited + 1]
                    vs == pipelines[id].variables
                IN  /\ scan' = [scan EXCEPT ![h].visited = @ + 1]
                    /\ locals' = locals
                    /\ IF IsRedundantRaises(vs, a.head_ref, a.clone_url)
                       THEN Raise(h, "KeyError") /\ hostB' = hostB
                       ELSE IF SendsCancel(config, vs, a.head_ref, a.clone_url)
                       THEN \E ok \in BOOLEAN :
                              /\ hostB' = Append(hostB, [call |-> "cancel", by |-> h,
                                                         id |-> id, ok |-> ok])
                              /\ IF ok THEN Goto(h, "scan")
                                 ELSE Raise(h, "GitLabException")
                       ELSE Goto(h, "scan") /\ hostB' = hostB
    /\ UNCHANGED <<sigVars, config, event, variables, job, hostA, pipelines>>

\* A plausible slip: no dry-run return in trigger_pipeline.
TriggerSkippedNever(cfg) == FALSE

\* "if self.config.STERILE: ... return" (gitlab/__init__.py:107-109)
TriggerSkipped(cfg) == cfg.STERILE

\* The query for the pipeline definition at head_sha, with Host A's answer.
ConfigQuery(h, a, status) ==
    [call |-> "config", by |-> h, status |-> status,
     url |-> a.repo_url \o <<"/contents/.gitlab-ci.yml?ref=", a.head_sha>>]

\* trigger_pipeline up to the answer of Host A (gitlab/__init__.py:107-118):
\* the dry-run return, or the getitem, which raises when Host A has no such
\* file.
TriggerBegin(h) ==
    /\ pc[h] = "trigger"
    /\ IF TriggerSkipped(config)
       THEN /\ Goto(h, NextTail(h))
            /\ locals' = [locals EXCEPT ![h].tail = @ + 1]
            /\ hostA' = hostA
       ELSE \E status \in {200, 404} :
              /\ hostA' = Append(hostA, ConfigQuery(h, locals[h].args, status))
              /\ IF status = 200
                 THEN /\ Goto(h, "submit")
                      /\ locals' = [locals EXCEPT ![h].config_url = "raw/.gitlab-ci.yml"]
                 ELSE Raise(h, "BadRequest") /\ locals' = locals
    /\ UNCHANGED <<sigVars, config, event, variables, job, hostB, pipelines, scan>>

\* trigger_pipeline from the payload to the end (gitlab/__init__.py:120-174):
\* the signed form is posted; Host B creates the pipeline, refuses it with a
\* 422 (reported to Host A by add_failure_status), or fails.
TriggerSubmit(h) ==
    /\ pc[h] = "submit"
    /\ \E status \in SubmitStatuses : \E info \in BodiesFor(status) :
         LET a == locals[h].args
             data == TriggerPostData(config, a, locals[h].config_url)
             outcome == SubmitOutcome(status)
         IN  /\ hostB' = Append(hostB, [call |-> "trigger", by |-> h, data |-> data,
                                        status |-> status, body |-> info])
             /\ CASE outcome = "triggered" ->
                       /\ pipelines' = Append(pipelines, [status |-> "pending",
                                                          variables |-> data.variables])
                       /\ locals' = [locals EXCEPT ![h].tail = @ + 1,
                                                   ![h].submitted = Len(pipelines) + 1]
                       /\ Goto(h, NextTail(h))
                       /\ hostA' = hostA
                  [] outcome = "failure_status" ->
                       /\ hostA' = hostA \o
                             (IF config.STERILE THEN <<>>
                              ELSE <<CheckRunPost(h, a.repo_url,
                                        FailurePayload(a.head_sha, FailureMessage(info)))>>)
                       /\ locals' = [locals EXCEPT ![h].tail = @ + 1]
                       /\ Goto(h, NextTail(h))
                       /\ pipelines' = pipelines
                  [] OTHER ->
                       /\ Raise(h, outcome)
                       /\ UNCHANGED <<hostA, locals, pipelines>>
    /\ UNCHANGED <<sigVars, config, event, variables, job, scan>>

\* handle_rerequest's last step (github/utils.py:307-313).
Retry(h) ==
    /\ pc[h] = "retry"
    /\ IF config.STERILE
       THEN Goto(h, "returned") /\ hostB' = hostB
       ELSE \E status \in {201, 500} :
              /\ hostB' = Append(hostB, [call |-> "retry", by |-> h, status |-> status,
                                          url |-> event[h].external_id \o <<"/retry">>])
              /\ IF status = 201 THEN Goto(h, "returned")
                 ELSE Raise(h, "ClientResponseError")
    /\ UNCHANGED <<sigVars, config, event, variables, job, locals, hostA,
                   pipelines, scan>>

\* handle_rerun_comment's last step: the rocket reaction (github/utils.py:634-638).
React(h) ==
    /\ pc[h] = "react"
    /\ hostA' = Append(hostA, [call |-> "reaction", by |-> h])
    /\ Goto(h, NextTail(h))
    /\ locals' = [locals EXCEPT ![h].tail = @ + 1]
    /\ UNCHANGED <<sigVars, config, event, variables, job, hostB, pipelines, scan>>

(***************************************************************************)
(* SpecTrigger: one webhook event handled by one task.                     *)
(***************************************************************************)
\* Most in-flight pipelines Host B lists when the event arrives.
MaxInFlight == 2

\* The pipelines Host B may list: an earlier one of the same ref, one of
\* another ref, and one that was not started by the bridge.
InFlightPipelines ==
    {[status |-> "pending",
      variables |-> [HEAD_REF |-> "feature", CLONE_URL |-> OrgCloneUrl]],
     [status |-> "running",
      variables |-> [HEAD_REF |-> "main", CLONE_URL |-> OrgCloneUrl]],
     [status |-> "running", variables |-> [CI_JOB |-> "nightly"]]}

InitTrigger ==
    /\ pc = [h \in {1} |-> "start"]
    /\ exc = [h \in {1} |-> None]
    /\ config \in TriggerConfigs
    /\ event \in [{1} -> TriggerEvents]
    /\ locals = [h \in {1} |-> StartLocals]
    /\ scan = [h \in {1} |-> StartScan]
    /\ pipelines \in SeqsUpTo(InFlightPipelines, MaxInFlight)
    /\ variables = None /\ job = None
    /\ hostA = <<>> /\ hostB = <<>>
    /\ IdleSig

NextTrigger ==
    \/ \E h \in Tasks : HandlerStart(h)
    \/ \E h \in Tasks : TeamCheck(h)
    \/ \E h \in Tasks : InstalledCheck(h)
    \/ \E h \in Tasks : Resolve(h)
    \/ \E h \in Tasks : TriggerScanStep(h)
    \/ \E h \in Tasks : TriggerBegin(h)
    \/ \E h \in Tasks : TriggerSubmit(h)
    \/ \E h \in Tasks : Retry(h)
    \/ \E h \in Tasks : React(h)

SpecTrigger == InitTrigger /\ [][NextTrigger]_vars

\* The calls of one kind in a log, as the set of their places.
CallsOf(log, kind) == {i \in DOMAIN log : log[i].call = kind}

\* C12: once a handler has posted its pipeline to Host B its cancel scan is
\* over: every cancel call of the handler precedes the submission, none names
\* the pipeline the handler submitted, and the handler is not scanning.
C12_ScanEndsBeforeSubmission ==
    \A i \in CallsOf(hostB, "trigger") :
        LET h == hostB[i].by
        IN  /\ pc[h] # "scan"
            /\ \A j \in CallsOf(hostB, "cancel") :
                   hostB[j].by = h => (j < i /\ hostB[j].id # locals[h].submitted)

\* A handler that cancelled an earlier pipeline of the ref has had its own
\* pipeline created.
C12_Witness ==
    \E i \in CallsOf(hostB, "trigger"), j \in CallsOf(hostB, "cancel") :
        /\ hostB[i].by = hostB[j].by /\ j < i
        /\ locals[hostB[i].by].submitted > 0
        /\ pc[hostB[i].by] = "returned"

(***************************************************************************)
(* SpecRace: two events for the same ref handled by two tasks interleaved  *)
(* on the event loop.                                                      *)
(***************************************************************************)
RaceTasks == {1, 2}

\* Events for head_ref "feature" of the organisation's repository that pass
\* the handlers' filters.
RaceEvents ==
    {ev \in SynchronizeEvents : ~ev.draft /\ ev.source_login = "org"}
        \cup {ev \in PushEvents : ev.sender = "org" /\ ev.pusher = "org"
                                  /\ ev.repo_url = ApiRepoUrl}

RaceConfigs == {c \in TriggerConfigs : c.ALLOW_ORG = "org" /\ ~c.STERILE}

InitRace ==
    /\ pc = [h \in RaceTasks |-> "start"]
    /\ exc = [h \in RaceTasks |-> None]
    /\ config \in RaceConfigs
    /\ event \in [RaceTasks -> RaceEvents]
    /\ locals = [h \in RaceTasks |-> StartLocals]
    /\ scan = [h \in RaceTasks |-> StartScan]
    /\ pipelines \in SeqsUpTo({[status |-> "pending",
                                variables |-> [HEAD_REF |-> "feature",
                                               CLONE_URL |-> OrgCloneUrl]]}, 1)
    /\ variables = None /\ job = None
    /\ hostA = <<>> /\ hostB = <<>>
    /\ IdleSig

NextRace ==
    \/ \E h \in Tasks : HandlerStart(h)
    \/ \E h \in Tasks : TeamCheck(h)
    \/ \E h \in Tasks : InstalledCheck(h)
    \/ \E h \in Tasks : TriggerScanStep(h)
    \/ \E h \in Tasks : TriggerBegin(h)
    \/ \E h \in Tasks : TriggerSubmit(h)

SpecRace == InitRace /\ [][NextRace]_vars

\* The in-flight pipelines of the ref that were never sent a cancel call.
UncancelledFor(head_ref, clone_url) ==
    {i \in DOMAIN pipelines :
        /\ pipelines[i].status \in {"running", "pending"}
        /\ {"HEAD_REF", "CLONE_URL"} \subseteq DOMAIN pipelines[i].variables
        /\ pipelines[i].variables["HEAD_REF"] = head_ref
        /\ pipelines[i].variables["CLONE_URL"] = clone_url
        /\ i \notin CancelCallsSent}

\* C13 as stated: once every handler for the ref has finished, at most one
\* in-flight pipeline of the ref has not been sent a cancel call.
C13_AtMostOneUncancelled ==
    (\A h \in Tasks : pc[h] \in {"returned", "raised"})
        => Cardinality(UncancelledFor("feature", OrgCloneUrl)) <= 1

\* The convenience variables and the payload field each repeats.
ConvenienceVariables ==
    [CONFIG_URL |-> "config_url", CLONE_URL |-> "clone_url",
     CLONE_REPO_SLUG |-> "clone_repo_slug", CLONE_REPO_NAME |-> "clone_repo_name",
     REPO_SLUG |-> "repo_slug", REPO_NAME |-> "repo_name",
     HEAD_SHA |-> "head_sha", HEAD_REF |-> "head_ref"]

\* C14: every submission carries BRIDGE_PAYLOAD, the signature of exactly
\* that text under the bridge's secret, and the eight convenience variables,
\* each equal to the field of the same name in the signed payload.
C14_SubmissionCarriesSignedPayload ==
    \A i \in CallsOf(hostB, "trigger") :
        LET v == hostB[i].data.variables
        IN  /\ DOMAIN v = {"BRIDGE_PAYLOAD", "TRIGGER_SIGNATURE"}
                              \cup DOMAIN ConvenienceVariables
            /\ v.TRIGGER_SIGNATURE =
                   SignatureCreate(config.TRIGGER_SECRET, PyStr(v.BRIDGE_PAYLOAD))
            /\ \A name \in DOMAIN ConvenienceVariables :
                   LET field == ConvenienceVariables[name]
                       bp == JsonLoads(v.BRIDGE_PAYLOAD)
                   IN  field \in DOMAIN bp /\ v[name] = bp[field]

\* A submission for head_sha abc123 of org/repo from a fork: HEAD_SHA is
\* abc123, REPO_SLUG is org_repo and the clone's slug is another one.
C14_Witness ==
    \E i \in CallsOf(hostB, "trigger") :
        LET v == hostB[i].data.variables
        IN  /\ v.HEAD_SHA = "abc123"
            /\ v.REPO_SLUG = <<"org", "_", "repo">>
            /\ v.CLONE_REPO_SLUG = <<"eve", "_", "repo">>

\* The check-runs a task has posted to Host A.
PostsBy(h) == {j \in CallsOf(hostA, "post") : hostA[j].by = h}

CallsBy(log, kind, h) == {i \in CallsOf(log, kind) : log[i].by = h}

\* C17 as stated: a handler whose query for .gitlab-ci.yml was answered 404
\* ends having posted a neutral check-run, having submitted nothing, and
\* having asked once.
C17_MissingDefinitionIsRejected ==
    \A i \in CallsOf(hostA, "config") :
        LET h == hostA[i].by
        IN  (hostA[i].status = 404 /\ pc[h] \in {"returned", "raised"}) =>
                /\ \E j \in PostsBy(h) : hostA[j].data.conclusion = "neutral"
                /\ CallsBy(hostB, "trigger", h) = {}
                /\ Cardinality(CallsBy(hostA, "config", h)) = 1

\* trigger_pipeline has returned to the handler (it is the second step of the
\* handler's tail).
TriggerPipelineReturned(h) == locals[h].tail >= 3

C19_SterileTriggerMakesNoCall ==
    [][\A h \in Tasks :
          (config.STERILE /\ pc[h] = "trigger" /\ pc'[h] # "trigger")
              => (hostA' = hostA /\ hostB' = hostB /\ pc'[h] # "submit")]_vars

\* A dry-run push handler has returned from trigger_pipeline.
C19_Witness ==
    /\ config.STERILE
    /\ \E h \in Tasks :
           /\ event[h].kind = "push"
           /\ pc[h] = "returned" /\ TriggerPipelineReturned(h)

\* A handler that ended by refusing a user (the refused login is still the
\* first to check) or by raising.
RejectedOrFailed(h) ==
    \/ pc[h] = "raised"
    \/ (pc[h] = "returned" /\ locals[h].logins # <<>>)

\* C20 as stated, for the handlers that ended in a rejection or a failure:
\* such a handler has posted a check-run to Host A.
C20_NeverSilent ==
    \A h \in Tasks : RejectedOrFailed(h) => PostsBy(h) # {}

\* The handler ended because get_author_in_team returned False: the refused
\* login is still the first of those left to check.
Refused(h) == pc[h] = "returned" /\ locals[h].logins # <<>>

\* The identities handle_synchronize and handle_push must find in the team.
CheckedIdentities(ev) ==
    IF ev.kind = "synchronize" THEN {ev.author, ev.source_login}
    ELSE {ev.sender, ev.pusher}

\* Host A's record shows the login passing get_author_in_team for the task:
\* it is the organisation, a member of the team, or one of the extra users.
PassedTeamCheck(h, login) ==
    \/ login = event[h].org
    \/ \E i \in CallsBy(hostA, "membership", h) :
           /\ hostA[i].login = login
           /\ \/ hostA[i].status = 200
              \/ (hostA[i].status = 404 /\ login \in config.EXTRA_USERS)

\* The handler has called trigger_pipeline.
TriggerPipelineCalled(h) ==
    \/ pc[h] \in {"trigger", "submit"}
    \/ locals[h].tail >= 3
    \/ CallsBy(hostA, "config", h) # {}
    \/ CallsBy(hostB, "trigger", h) # {}

\* The report of a refusal: neutral, "Pipeline refused", for the head sha.
IsRefusalReport(h, j) ==
    /\ hostA[j].data.status = "completed"
    /\ hostA[j].data.conclusion = "neutral"
    /\ hostA[j].data.output.title = "Pipeline refused"
    /\ hostA[j].data.head_sha = event[h].head_sha

Ignored == ShouldIgnoreJob(job.name, config.GITLAB_IGNORED_JOB_PATTERNS)

\* bridge_payload = json.loads(bridge_payload) (router.py:56), for a pipeline
\* that carries one.
DecodedPayload == JsonLoads(variables["BRIDGE_PAYLOAD"])

\* C22: a build event whose job is not ignored and whose verified payload
\* lacks installation_id ends in MissingInstallationIdError, with no call to
\* Host A at all: no access token for a client, and no check-run.
C22_MissingInstallationIdIsFatal ==
    (event.object_kind = "build" /\ Verified /\ ~Ignored
        /\ "installation_id" \notin DOMAIN DecodedPayload) =>
        /\ hostA = <<>> /\ Reports = {}
        /\ pc \in {"hook_start", "hook_gathered", "raised"}
        /\ pc = "raised" => exc = "MissingInstallationIdError"

C22_Witness ==
    /\ pc = "raised" /\ exc = "MissingInstallationIdError"
    /\ Verified /\ ~Ignored /\ hostA = <<>>
    /\ "installation_id" \notin DOMAIN DecodedPayload
    /\ Len(hostB) = 4

\* The reads of Host B on_job_hook has made so far.
HostBReads == {hostB[i].call : i \in DOMAIN hostB}

\* C23 as stated: for an ignored job on_job_hook reads from Host B nothing but
\* the job, makes no call to Host A, fetches no log, and returns without
\* having looked at the signature.
C23_IgnoredJobDoesNoFurtherWork ==
    (event.object_kind = "build" /\ Ignored) =>
        /\ HostBReads \subseteq {"get_job"}
        /\ hostA = <<>> /\ Reports = {}
        /\ pc \in {"hook_start", "hook_gathered", "returned"}

(***************************************************************************)
(* SpecDecode: one pipeline's BRIDGE_PAYLOAD decoded by the two readers of *)
(* the bridge, on_job_hook and handle_check_suite.                         *)
(***************************************************************************)
\* router.py:52-77: what on_job_hook takes from a pipeline's payload.  It
\* indexes installation_id (after the check of 59-60), repo_url and head_sha,
\* and no other field before the report is posted.
CallbackDecode(cfg, vs) ==
    IF ~SignatureVerify(cfg.TRIGGER_SECRET, PyStr(vs["BRIDGE_PAYLOAD"]),
                        vs["TRIGGER_SIGNATURE"])
    THEN [raises |-> "SignatureMismatchError"]
    ELSE LET bp == JsonLoads(vs["BRIDGE_PAYLOAD"])
         IN  IF "installation_id" \notin DOMAIN bp
             THEN [raises |-> "MissingInstallationIdError"]
             ELSE IF ~({"repo_url", "head_sha"} \subseteq DOMAIN bp)
             THEN [raises |-> "KeyError"]
             ELSE [raises |-> None, installation_id |-> bp["installation_id"],
                   repo_url |-> bp["repo_url"], head_sha |-> bp["head_sha"]]

\* github/utils.py:163-182: the same for handle_check_suite.
CheckSuiteDecode(cfg, vs) ==
    IF ~SignatureVerify(cfg.TRIGGER_SECRET, PyStr(vs["BRIDGE_PAYLOAD"]),
                        vs["TRIGGER_SIGNATURE"])
    THEN [raises |-> "SignatureMismatchError"]
    ELSE RerequestDecode(JsonLoads(vs["BRIDGE_PAYLOAD"]))

\* The payload the current bridge sends for a pull request from a fork.
CurrentPayload ==
    PipelineTriggerData(
        [installation_id |-> "1001", repo_url |-> ApiRepoUrl,
         repo_slug |-> MakeRepoSlug(OrgRepo), repo_name |-> OrgRepo,
         head_sha |-> "abc123", clone_url |-> ForkCloneUrl,
         clone_repo_slug |-> MakeRepoSlug(ForkRepo), clone_repo_name |-> ForkRepo,
         head_ref |-> "feature"], "raw/.gitlab-ci.yml")

\* The fields added to the payload after its first version.
LaterFields == {"head_ref", "clone_repo_slug", "clone_repo_name"}

\* The fields a payload of the model may be without.
DroppableFields == LaterFields \cup {"installation_id", "clone_url"}

InitDecode ==
    /\ pc = "decode" /\ exc = None
    /\ config = [TRIGGER_SECRET |-> <<"k">>]
    /\ \E dropped \in SUBSET DroppableFields, forged \in BOOLEAN :
          LET text == JsonDumps(Restrict(CurrentPayload, DOMAIN CurrentPayload \ dropped))
          IN  variables = [BRIDGE_PAYLOAD |-> text,
                           TRIGGER_SIGNATURE |->
                               IF forged THEN <<"z">>
                               ELSE SignatureCreate(<<"k">>, PyStr(text))]
    /\ locals = [callback |-> [raises |-> "pending"], rerequest |-> [raises |-> "pending"]]
    /\ event = None /\ job = None
    /\ hostA = <<>> /\ hostB = <<>>
    /\ IdleSig /\ IdleCancel

DecodeOnCallback ==
    /\ pc = "decode" /\ locals.callback.raises = "pending"
    /\ locals' = [locals EXCEPT !.callback = CallbackDecode(config, variables)]
    /\ UNCHANGED <<pc, exc, sigVars, inputVars, hostA, hostB, cancelVars>>

DecodeOnCheckSuite ==
    /\ pc = "decode" /\ locals.rerequest.raises = "pending"
    /\ locals' = [locals EXCEPT !.rerequest = CheckSuiteDecode(config, variables)]
    /\ UNCHANGED <<pc, exc, sigVars, inputVars, hostA, hostB, cancelVars>>

NextDecode ==
    \/ DecodeOnCallback
    \/ DecodeOnCheckSuite

SpecDecode == InitDecode /\ [][NextDecode]_vars

\* The fields of the current payload the pipeline's payload is without.
MissingFields == DOMAIN CurrentPayload \ DOMAIN DecodedPayload

\* C24: a verified payload that is without some of head_ref, clone_repo_slug
\* and clone_repo_name, and without nothing else, is decoded without a raise
\* by on_job_hook and by handle_check_suite; handle_check_suite takes the
\* empty text for each missing field and the payload's value for the others,
\* on_job_hook reads none of the three.
C24_EarlierPayloadDecodes ==
    (Verified /\ MissingFields \subseteq LaterFields) =>
        /\ locals.callback.raises \in {"pending", None}
        /\ locals.rerequest.raises \in {"pending", None}
        /\ locals.callback.raises = None =>
              locals.callback = [raises |-> None, installation_id |-> "1001",
                                 repo_url |-> ApiRepoUrl, head_sha |-> "abc123"]
        /\ locals.rerequest.raises = None =>
              /\ locals.rerequest.clone_url = ForkCloneUrl
              /\ locals.rerequest.head_sha = "abc123"
              /\ locals.rerequest.head_ref =
                    (IF "head_ref" \in MissingFields THEN "" ELSE "feature")
              /\ locals.rerequest.clone_repo_slug =
                    (IF "clone_repo_slug" \in MissingFields THEN <<>>
                     ELSE MakeRepoSlug(ForkRepo))
              /\ locals.rerequest.clone_repo_name =
                    (IF "clone_repo_name" \in MissingFields THEN <<>> ELSE ForkRepo)

C24_Witness ==
    /\ Verified /\ MissingFields = LaterFields
    /\ locals.callback.raises = None
    /\ locals.rerequest.raises = None
    /\ locals.rerequest.head_ref = ""
    /\ locals.rerequest.clone_repo_slug = <<>>
    /\ locals.rerequest.clone_repo_name = <<>>

\* on_job_hook has run to its end for a job it reports on.
HookCompleted == pc = "returned" /\ locals.notify # None

\* The reverse notification was attempted: on_job_hook entered its try block.
NotifyAttempted == locals.notify \notin {None, "not attempted"}

\* The feature is enabled and the job's status is in the allow-list.
GateOpen ==
    /\ config.ENABLE_GITLAB_TO_GITHUB_TRIGGERING
    /\ job.status \in config.GITLAB_TO_GITHUB_TRIGGER_ON_STATUS

NotifyFailed == locals.notify \in {"TypeError logged", "KeyError logged"}

DispatchAttempts ==
    {i \in DOMAIN hostA :
        /\ hostA[i].call \in {"get_workflows", "dispatch"}
        /\ hostA[i].repo = DecodedPayload["repo_name"]}

\* C27 as stated: for an event that passes the gate, trigger_github_workflow
\* runs with the payload's repo_name, so that Host A is asked about that
\* repository's workflows.
C27_NotificationReachesHostA ==
    (HookCompleted /\ GateOpen) =>
        /\ locals.notify = "called"
        /\ DispatchAttempts # {}

\* exceptions.py:1-34: UnrecoverableError and its subclasses.
UnrecoverableErrors ==
    {"UnrecoverableError", "SignatureMismatchError", "TeamOrgMismatchError",
     "IncompatibleJobUrlError", "InvalidBuildError", "MissingInstallationIdError"}

GithubLimit == 5

\* The width given to textwrap.fill, 150 (github/utils.py:485-486), scaled down.
WrapWidth == 2

\* Longest log of the model.
MaxLogLen == 7

\* The characters of a log: a letter, a blank and the newline.
LogChars == {"a", " ", "\n"}

\* log.split("\n")
RECURSIVE SplitLines(_)
SplitLines(text) ==
    IF \A i \in DOMAIN text : text[i] # "\n" THEN <<text>>
    ELSE LET n == CHOOSE n \in DOMAIN text :
                      text[n] = "\n" /\ \A i \in 1..(n - 1) : text[i] # "\n"
         IN  <<SubSeq(text, 1, n - 1)>> \o SplitLines(SubSeq(text, n + 1, Len(text)))

\* "\n".join(lines)
RECURSIVE JoinLines(_)
JoinLines(lines) ==
    IF lines = <<>> THEN <<>>
    ELSE IF Len(lines) = 1 THEN lines[1]
    ELSE lines[1] \o <<"\n">> \o JoinLines(Tail(lines))

\* A plausible slip: the list walked and returned front to back.
NotReversed(xs) == xs

\* list(reversed(xs))
Reversed(xs) == [i \in DOMAIN xs |-> xs[Len(xs) + 1 - i]]

\* chunk.strip() == ''
IsBlank(chunk) == \A i \in DOMAIN chunk : chunk[i] = " "

\* TextWrapper._split_chunks for a line of letters and blanks: the maximal
\* runs of blanks and of letters.
RECURSIVE SplitChunks(_)
SplitChunks(text) ==
    IF text = <<>> THEN <<>>
    ELSE LET blank == text[1] = " "
             n == CHOOSE n \in DOMAIN text :
                      /\ \A i \in 1..n : (text[i] = " ") = blank
                      /\ n = Len(text) \/ (text[n + 1] = " ") # blank
         IN  <<SubSeq(text, 1, n)>> \o SplitChunks(SubSeq(text, n + 1, Len(text)))

\* ''.join(chunks)
RECURSIVE JoinChunks(_)
JoinChunks(chunks) ==
    IF chunks = <<>> THEN <<>> ELSE Head(chunks) \o JoinChunks(Tail(chunks))

\* The inner loop of TextWrapper._wrap_chunks: chunks are moved to the
\* current line while they fit into the width.
RECURSIVE TakeFitting(_, _, _, _)
TakeFitting(chunks, cur_line, cur_len, width) ==
    IF chunks # <<>> /\ cur_len + Len(Head(chunks)) <= width
    THEN TakeFitting(Tail(chunks), Append(cur_line, Head(chunks)),
                     cur_len + Len(Head(chunks)), width)
    ELSE [cur_line |-> cur_line, cur_len |-> cur_len, chunks |-> chunks]

\* TextWrapper._wrap_chunks with the defaults of textwrap.fill
\* (drop_whitespace, break_long_words, no indent, no max_lines): a blank
\* chunk at the start of a line after the first is dropped, a chunk longer
\* than the width is cut at the space left (_handle_long_word), a blank
\* chunk at the end of the line is dropped, an empty line is not kept.
RECURSIVE WrapChunks(_, _, _)
WrapChunks(chunks, lines, width) ==
    IF chunks = <<>> THEN lines
    ELSE LET start == IF IsBlank(Head(chunks)) /\ lines # <<>>
                      THEN Tail(chunks) ELSE chunks
             t == TakeFitting(start, <<>>, 0, width)
             long == t.chunks # <<>> /\ Len(Head(t.chunks)) > width
             space_left == IF width < 1 THEN 1 ELSE width - t.cur_len
             filled == IF long
                       THEN Append(t.cur_line, SubSeq(Head(t.chunks), 1, space_left))
                       ELSE t.cur_line
             rest == IF long
                     THEN <<SubSeq(Head(t.chunks), space_left + 1, Len(Head(t.chunks)))>>
                              \o Tail(t.chunks)
                     ELSE t.chunks
             cur_line == IF filled # <<>> /\ IsBlank(filled[Len(filled)])
                         THEN SubSeq(filled, 1, Len(filled) - 1) ELSE filled
         IN  WrapChunks(rest,
                        IF cur_line # <<>> THEN Append(lines, JoinChunks(cur_line))
                        ELSE lines,
                        width)

\* textwrap.fill(line, width=width)
TextwrapFill(line, width) == JoinLines(WrapChunks(SplitChunks(line), <<>>, width))

\* github/utils.py:470-475: the lines taken from the end of the log.
RECURSIVE SelectLines(_, _, _, _)
SelectLines(rlines, selected_lines, size, limit) ==
    IF rlines = <<>> THEN selected_lines
    ELSE IF size + Len(Head(rlines)) >= limit THEN selected_lines
    ELSE SelectLines(Tail(rlines), Append(selected_lines, Head(rlines)),
                     size + Len(Head(rlines)) + 1, limit)

\* A plausible slip: a log just at the limit truncated too.
NeedsTruncationAtLimit(log, limit) == Len(log) >= limit

\* "if len(log) > github_limit" (github/utils.py:466)
NeedsTruncation(log, limit) == Len(log) > limit

\* f"Showing last {n} out of {m} total lines\n\n" (github/utils.py:477),
\* scaled down like the limit: each of its parts counts as one character.
Banner(n, m) ==
    <<"Showing last ", ToString(n), " out of ", ToString(m), " total lines", "\n", "\n">>

\* github/utils.py:482-488: every line longer than the width is re-flowed.
WrapLines(lines, width) ==
    [i \in DOMAIN lines |->
        IF Len(lines[i]) > width THEN TextwrapFill(lines[i], width) ELSE lines[i]]

\* github/utils.py:464-490: the log text, with what the claims speak of: the
\* lines of the input, the lines kept, and whether the banner was written.
FormatLog(log, limit, width) ==
    LET lines == SplitLines(log)
        truncated == NeedsTruncation(log, limit)
        kept == IF truncated
                THEN Reversed(SelectLines(Reversed(lines), <<>>, 0, limit))
                ELSE lines
        head == IF truncated THEN Banner(Len(kept), Len(lines)) ELSE <<>>
    IN  [text |-> head \o JoinLines(WrapLines(kept, width)),
         banner |-> truncated, kept |-> kept, lines |-> lines]

Logs == UNION {[1..n -> LogChars] : n \in 0..MaxLogLen}

InitLog ==
    /\ pc = "log_fetched" /\ exc = None
    /\ locals \in [log : Logs, out : {None}]
    /\ config = None /\ event = None /\ variables = None /\ job = None
    /\ hostA = <<>> /\ hostB = <<>>
    /\ IdleSig /\ IdleCancel

FormatLogStep ==
    /\ pc = "log_fetched"
    /\ pc' = "log_formatted"
    /\ locals' = [locals EXCEPT !.out = FormatLog(locals.log, GithubLimit, WrapWidth)]
    /\ UNCHANGED <<exc, sigVars, inputVars, hostA, hostB, cancelVars>>

NextLog == FormatLogStep

SpecLog == InitLog /\ [][NextLog]_vars

\* C29 as stated: the formatted log, banner and inserted newlines counted,
\* is never longer than the limit.
C29_OutputFitsLimit ==
    pc = "log_formatted" => Len(locals.out.text) <= GithubLimit

\* No line of the log is longer than the wrap width.
NoLongLine == \A i \in DOMAIN SplitLines(locals.log) :
                  Len(SplitLines(locals.log)[i]) <= WrapWidth

\* C30 as stated: a log no longer than the limit comes out as it went in,
\* with all its lines and without the banner.
C30_ShortLogUnchanged ==
    (pc = "log_formatted" /\ Len(locals.log) <= GithubLimit) =>
        /\ locals.out.text = locals.log
        /\ locals.out.kept = locals.out.lines
        /\ ~locals.out.banner

\* C30 amended: the same for a log none of whose lines is longer than the
\* wrap width; with a longer line all lines are still kept without a banner.
C30_ShortLogUnchangedUnlessWrapped ==
    (pc = "log_formatted" /\ Len(locals.log) <= GithubLimit) =>
        /\ NoLongLine => locals.out.text = locals.log
        /\ locals.out.kept = locals.out.lines
        /\ ~locals.out.banner

C30_Witness ==
    /\ pc = "log_formatted" /\ Len(locals.log) = GithubLimit /\ NoLongLine
    /\ Len(locals.out.lines) >= 2
    /\ locals.out.text = locals.log

\* The log was longer than the limit and has been formatted.
Truncated == pc = "log_formatted" /\ Len(locals.log) > GithubLimit

\* The last n of the lines xs, in their order.
LastLines(xs, n) == SubSeq(xs, Len(xs) - n + 1, Len(xs))

\* The text starts with the banner for k lines out of n.
StartsWithBanner(text, k, n) ==
    /\ Len(text) >= 7
    /\ SubSeq(text, 1, 7) =
           <<"Showing last ", ToString(k), " out of ", ToString(n), " total lines",
             "\n", "\n">>

\* C31 as stated: of a log longer than the limit the last lines are kept,
\* in their order and the last line of the log among them, and the text
\* starts with the banner naming their number and the number of all lines.
C31_TruncationKeepsLastLines ==
    Truncated =>
        /\ Len(locals.out.kept) >= 1
        /\ locals.out.kept = LastLines(locals.out.lines, Len(locals.out.kept))
        /\ StartsWithBanner(locals.out.text, Len(locals.out.kept), Len(locals.out.lines))

\* C31 amended: the same, except that no line at all is kept when the last
\* line of the log alone reaches the limit.
C31_TruncationKeepsLastLinesIfAny ==
    Truncated =>
        /\ Len(locals.out.kept) >= 1 <=>
               Len(locals.out.lines[Len(locals.out.lines)]) < GithubLimit
        /\ locals.out.kept = LastLines(locals.out.lines, Len(locals.out.kept))
        /\ StartsWithBanner(locals.out.text, Len(locals.out.kept), Len(locals.out.lines))

C31_Witness ==
    /\ Truncated
    /\ Len(locals.out.kept) = 2 /\ Len(locals.out.lines) >= 3
    /\ locals.out.kept[1] # locals.out.lines[1]
    /\ StartsWithBanner(locals.out.text, 2, Len(locals.out.lines))

\* The tasks handling a check_run rerequest.
RerequestTasks == {h \in Tasks : event[h].kind = "rerequest"}

\* C32: a retry is posted only by a handle_rerequest whose check run's
\* external_id starts with GITLAB_API_URL and whose sender passed the team
\* check, and it goes to external_id + "/retry"; with another external_id the
\* handler raises IncompatibleJobUrlError without any call; a handler that
\* found the sender outside the team posts no retry.
C32_RetryOnlyForCompatibleUrlAndTeamMember ==
    /\ \A i \in CallsOf(hostB, "retry") :
          LET h == hostB[i].by
          IN  /\ h \in RerequestTasks
              /\ event[h].external_id[1] = config.GITLAB_API_URL
              /\ PassedTeamCheck(h, event[h].sender)
              /\ hostB[i].url = event[h].external_id \o <<"/retry">>
    /\ \A h \in RerequestTasks :
          /\ (event[h].external_id[1] # config.GITLAB_API_URL /\ pc[h] # "start") =>
                /\ pc[h] = "raised" /\ exc[h] = "IncompatibleJobUrlError"
                /\ hostA = <<>> /\ hostB = <<>>
          /\ Refused(h) => CallsBy(hostB, "retry", h) = {}

C32_Witness ==
    \E h \in RerequestTasks :
        /\ pc[h] = "returned" /\ event[h].sender = "eve"
        /\ \E i \in CallsBy(hostB, "retry", h) : hostB[i].status = 201
        /\ \E i \in CallsBy(hostA, "membership", h) : hostA[i].status = 200

\* The tasks handling an issue_comment event.
CommentTasks == {h \in Tasks : event[h].kind = "comment"}

\* Everything handle_comment asks for before it calls handle_rerun_comment,
\* as the event and the answers of Host A show it.
CommentMayRerun(h) ==
    /\ event[h].action = "created" /\ event[h].is_pr
    /\ PassedTeamCheck(h, event[h].sender)
    /\ \E i \in CallsBy(hostA, "installed_repos", h) : hostA[i].installed
    /\ Lower(Strip(event[h].body)) \in {<<"/rerun">>, <<"/retry">>}

\* C33: a comment's handler reaches the cancel scan, trigger_pipeline or the
\* reaction only for a created comment on a pull request by a team member in
\* an installed repository whose body is one of the two commands; it posts at
\* most one reaction, and only after trigger_pipeline has returned; for
\* another action or an issue that is no pull request it makes no call at all.
C33_CommentRerunOnlyOnCommand ==
    \A h \in CommentTasks :
        /\ (\/ pc[h] \in {"resolve", "scan", "trigger", "submit", "react"}
            \/ TriggerPipelineCalled(h)
            \/ CallsBy(hostA, "reaction", h) # {}) => CommentMayRerun(h)
        /\ Cardinality(CallsBy(hostA, "reaction", h)) <= 1
        /\ CallsBy(hostA, "reaction", h) # {} =>
              (pc[h] = "returned" /\ TriggerPipelineReturned(h))
        /\ (event[h].action # "created" \/ ~event[h].is_pr) =>
              (hostA = <<>> /\ hostB = <<>> /\ pc[h] \in {"start", "returned"})

C33_Witness ==
    \E h \in CommentTasks :
        /\ pc[h] = "returned" /\ event[h].body = <<" ", "/ReRun", "\n">>
        /\ Cardinality(CallsBy(hostA, "reaction", h)) = 1
        /\ \E i \in CallsBy(hostB, "trigger", h) : hostB[i].status = 201

\* C34: a rerequest for a check run whose external_id handle_pipeline_status
\* wrote passes get_gitlab_job's prefix check, every retry it posts goes to
\* that external_id + "/retry", and the handler of a team member that ran to
\* its end outside dry-run mode has posted one.
C34_ExternalIdRoundTrips ==
    \A h \in RerequestTasks :
        event[h].external_id \in ReportedExternalIds =>
            /\ exc[h] # "IncompatibleJobUrlError"
            /\ \A i \in CallsBy(hostB, "retry", h) :
                  hostB[i].url = event[h].external_id \o <<"/retry">>
            /\ (pc[h] = "returned" /\ ~Refused(h) /\ ~config.STERILE) =>
                  Cardinality(CallsBy(hostB, "retry", h)) = 1

C34_Witness ==
    \E h \in RerequestTasks :
        /\ pc[h] = "returned"
        /\ \E i \in CallsBy(hostB, "retry", h) :
              hostB[i].url = <<"https://host-b/api/v4", "/projects/", "5", "/jobs/", "7",
                               "/retry">>

\* The check_suite task.
CheckSuiteTasks == {h \in Tasks : event[h].kind = "check_suite"}

\* The handler has got as far as its cancel scan.
ScanReached(h) ==
    \/ pc[h] \in {"scan", "trigger", "submit"}
    \/ locals[h].tail >= 2
    \/ CallsBy(hostB, "cancel", h) # {}
    \/ CallsBy(hostB, "trigger", h) # {}

\* The variables carry a payload under the signature the bridge's key gives it.
GenuinelySigned(vs) ==
    /\ {"BRIDGE_PAYLOAD", "TRIGGER_SIGNATURE"} \subseteq DOMAIN vs
    /\ vs["TRIGGER_SIGNATURE"] =
          SignatureCreate(config.TRIGGER_SECRET, PyStr(vs["BRIDGE_PAYLOAD"]))

\* clone_url, head_sha and head_ref (empty when the payload has none) agree.
KeepsOrigin(new, orig) ==
    /\ new["clone_url"] = orig["clone_url"]
    /\ new["head_sha"] = orig["head_sha"]
    /\ new["head_ref"] = (IF "head_ref" \in DOMAIN orig THEN orig["head_ref"] ELSE "")

C36_SterileMakesNoMutatingCall ==
    config.STERILE =>
        /\ \A i \in DOMAIN hostA : hostA[i].call \notin {"post", "reaction", "dispatch"}
        /\ \A i \in DOMAIN hostB : hostB[i].call \notin {"trigger", "cancel", "retry"}

\* The pipeline the handlers submitted last, once each of them has submitted
\* one (Host B numbers pipelines in the order of their creation).
LastSubmitted ==
    CHOOSE p \in {locals[h].submitted : h \in Tasks} :
        \A h \in Tasks : locals[h].submitted <= p

\* C37: when each of the concurrent handlers for a ref has run its scan and
\* submitted its pipeline, no cancel call of any of them names the pipeline
\* that was submitted last.
C37_LastSubmittedSurvives ==
    (\A h \in Tasks : locals[h].submitted > 0) =>
        \A j \in CallsOf(hostB, "cancel") : hostB[j].id # LastSubmitted

\* Both handlers have submitted, and the later one cancelled the pipeline of
\* the earlier one.
C37_Witness ==
    /\ \A h \in Tasks : locals[h].submitted > 0 /\ pc[h] = "returned"
    /\ \E j \in CallsOf(hostB, "cancel"), h \in Tasks :
          /\ hostB[j].by # h
          /\ hostB[j].id = locals[h].submitted
          /\ locals[h].submitted # LastSubmitted

(***************************************************************************)
(* SpecMoving: one scan while Host B goes on running its pipelines.  The   *)
(* listing of a scope is what Host B answers when the loop over that scope *)
(* starts; the loop then awaits once for each candidate's variables and    *)
(* once for each cancel call, and Host B may start a pending pipeline or   *)
(* end a running one at any of these awaits.                               *)
(***************************************************************************)
InitMoving ==
    /\ pc = "query" /\ exc = None
    /\ config \in ScanConfigs
    /\ pipelines \in SeqsUpTo(ScanPipelines, MaxInFlight)
    /\ scan = [head_ref |-> "feature", clone_url |-> "https://host-a/org/repo.git",
               scope |-> 1, listing |-> <<>>, visited |-> 0]
    /\ event = None /\ variables = None /\ job = None /\ locals = None
    /\ hostA = <<>> /\ hostB = <<>>
    /\ IdleSig

\* gl.getiter(".../pipelines", {"scope": scope}) (gitlab/__init__.py:65-68):
\* Host B answers with the pipelines that have the status now.
ScopeQuery ==
    /\ pc = "query"
    /\ scan' = [scan EXCEPT !.listing = InScope(pipelines, ScanScopes[scan.scope]),
                            !.visited = 0]
    /\ pc' = "visit"
    /\ UNCHANGED <<exc, sigVars, inputVars, locals, hostA, hostB, pipelines>>

\* One turn of the inner loop over the listing (gitlab/__init__.py:68-91), or
\* its end: the next scope, or the end of the scan.  A pipeline Host B has
\* cancelled is no longer in flight.
ScopeVisit ==
    /\ pc = "visit"
    /\ IF scan.visited = Len(scan.listing)
       THEN /\ IF scan.scope = Len(ScanScopes)
               THEN pc' = "scan_done" /\ scan' = scan
               ELSE pc' = "query" /\ scan' = [scan EXCEPT !.scope = @ + 1]
            /\ UNCHANGED <<exc, hostB, pipelines>>
       ELSE LET id == scan.listing[scan.visited + 1]
                vs == pipelines[id].variables
            IN  /\ scan' = [scan EXCEPT !.visited = @ + 1]
                /\ IF IsRedundantRaises(vs, scan.head_ref, scan.clone_url)
                   THEN /\ pc' = "raised" /\ exc' = "KeyError"
                        /\ UNCHANGED <<hostB, pipelines>>
                   ELSE IF SendsCancel(config, vs, scan.head_ref, scan.clone_url)
                   THEN \E ok \in BOOLEAN :
                          /\ hostB' = Append(hostB, [call |-> "cancel", id |-> id, ok |-> ok])
                          /\ pc' = IF ok THEN "visit" ELSE "raised"
                          /\ exc' = IF ok THEN exc ELSE "GitLabException"
                          /\ pipelines' = IF ok /\ pipelines[id].status \in {"running", "pending"}
                                          THEN [pipelines EXCEPT ![id].status = "canceled"]
                                          ELSE pipelines
                   ELSE pc' = "visit" /\ UNCHANGED <<exc, hostB, pipelines>>
    /\ UNCHANGED <<sigVars, inputVars, locals, hostA>>

\* Host B gives a pending pipeline a runner.
HostBStarts ==
    /\ pc \in {"query", "visit"}
    /\ \E i \in DOMAIN pipelines :
         /\ pipelines[i].status = "pending"
         /\ pipelines' = [pipelines EXCEPT ![i].status = "running"]
    /\ UNCHANGED <<pc, exc, sigVars, inputVars, locals, hostA, hostB, scan>>

\* A running pipeline comes to its end.
HostBFinishes ==
    /\ pc \in {"query", "visit"}
    /\ \E i \in DOMAIN pipelines :
         /\ pipelines[i].status = "running"
         /\ pipelines' = [pipelines EXCEPT ![i].status = "success"]
    /\ UNCHANGED <<pc, exc, sigVars, inputVars, locals, hostA, hostB, scan>>

NextMoving == ScopeQuery \/ ScopeVisit \/ HostBStarts \/ HostBFinishes

SpecMoving == InitMoving /\ [][NextMoving]_vars

\* C38: a scan that ran to its end outside dry-run mode has sent a cancel
\* call to every pipeline with the scan's HEAD_REF and CLONE_URL that is
\* still in flight (a status only moves from pending to running to an end,
\* so such a pipeline was in flight for the whole scan), whichever moves
\* Host B made in between.
C38_InFlightThroughoutIsCancelled ==
    (pc = "scan_done" /\ ~config.STERILE) => RedundantPipelines \subseteq CancelCallsSent

\* C39: the scan never ends in an error over a candidate that lacks HEAD_REF
\* or CLONE_URL: a handler that has looked at candidates has not raised
\* KeyError (before its scan the handler has looked at none).
C39_ScanSkipsForeignPipelines ==
    \A h \in Tasks :
        ~(pc[h] = "raised" /\ exc[h] = "KeyError" /\ scan[h].visited > 0)

\* The identities the event's handler is to find in the team.
IdentitiesOf(ev) ==
    CASE ev.kind = "synchronize" -> {ev.author, ev.source_login}
      [] ev.kind = "push" -> {ev.sender, ev.pusher}
      [] OTHER -> {ev.sender}

\* C40: a handler reaches its cancel scan, and sends a cancel call, only for
\* an event whose identities all passed the team check of the allowed
\* organisation; a pull request's only when it is no draft, a comment's only
\* when it was created on a pull request and is one of the re-run commands,
\* a check suite's only when the suite is the bridge's; a check-run
\* re-request never.
C40_ScanOnlyForAuthorizedEvents ==
    \A h \in Tasks :
        ScanReached(h) =>
            LET ev == event[h]
            IN  /\ ev.kind \in {"synchronize", "push", "check_suite", "comment"}
                /\ config.ALLOW_ORG = ev.org
                /\ \A login \in IdentitiesOf(ev) : PassedTeamCheck(h, login)
                /\ ev.kind = "synchronize" => ~ev.draft
                /\ ev.kind = "check_suite" => ev.app_id = config.APP_ID
                /\ ev.kind = "comment" =>
                      /\ ev.action = "created" /\ ev.is_pr
                      /\ ev.body \in {<<"/rerun">>, <<"/retry">>, <<" ", "/ReRun", "\n">>}

\* A pipeline of the ref was cancelled for the pull request of an extra user
\* Host A does not list in the team.
C40_Witness ==
    \E h \in Tasks :
        /\ event[h].kind = "synchronize"
        /\ CallsBy(hostB, "cancel", h) # {}
        /\ \E i \in CallsBy(hostA, "membership", h) :
              hostA[i].status = 404 /\ hostA[i].login \in config.EXTRA_USERS

====
